---- MODULE Spec2Model ----
(***************************************************************************)
(* Dispatch-and-supervision core of the Security Sentinel orchestrator:    *)
(* dispatch_threads / process_batch (DO_batch_processor.py), the poll loop *)
(* (DO_session.py), the claim coordinator (DO_gh_alerts_control_center.py),*)
(* the outcome reconciler (DO_outcomes.py) and the shared run state        *)
(* (DO_models.py).                                                         *)
(*                                                                         *)
(* Python lists of alert numbers are modelled as the sets of their         *)
(* elements, lists of SessionResult as the bags of their elements (the     *)
(* order of completion is not modelled); None is modelled by the strings   *)
(* "none" / the number 0 as noted at each definition.  Time is measured in *)
(* seconds relative to the start_time of each poll loop.                   *)
(***************************************************************************)
EXTENDS Integers, Sequences, FiniteSets, Bags, TLC

\* ------------------------------------------------------------------ bounds
\* Number of batch ids that may appear in the batch map.
NumBatches == 2
\* Number of orchestrator instances that may run at the same time.
NumInstances == 2

\* ------------------------------------------------------- program constants
POLL_INTERVAL_SECONDS == 150
SESSION_TIMEOUT_SECONDS == 900
STAGNATION_THRESHOLD_SECONDS == 300
CLAIM_RETRY_ATTEMPTS == 3
\* requests.get(..., timeout=30) in get_devin_session_status: the longest a
\* status fetch is modelled to take.
FETCH_TIMEOUT_SECONDS == 30

BatchIds == 1..NumBatches
\* The alert numbers the tasks of batch b may carry; 0 models a task whose
\* alert_number is None.
NoAlert == 0
AlertIds(b) == {2 * b - 1, 2 * b}
AllAlerts == UNION {AlertIds(b) : b \in BatchIds}

\* SessionStatus enum values.
SUCCESS == "success"
FAILURE == "failure"
PARTIAL == "partial"
STUCK == "stuck"
TIMEOUT == "timeout"
PENDING == "pending"
RUNNING == "running"
SessionStatus == {SUCCESS, FAILURE, PARTIAL, STUCK, TIMEOUT, PENDING, RUNNING}

\* SessionResult dataclass.  batch_id 0 models "", pr_url "none" models None.
SessionResult(status, session_id, batch_id, alert_numbers, pr_url, error_message) ==
    [status |-> status, session_id |-> session_id, batch_id |-> batch_id,
     alert_numbers |-> alert_numbers, pr_url |-> pr_url,
     error_message |-> error_message,
     fixed_alerts |-> {}, unfixed_alerts |-> {}]

NoResult == [status |-> "none"]

\* ------------------------------------------------------- claim coordinator
\* One alert's retry loop of claim_github_alerts / unclaim_github_alerts:
\* r[k] is TRUE when the k-th PATCH answers 200 and FALSE when it answers
\* anything else or raises requests.RequestException.  attempt counts from 0
\* as range(max_retries) does.
RECURSIVE RetryLoop(_, _, _)
RetryLoop(r, attempt, max_retries) ==
    IF attempt >= max_retries
    THEN [success |-> FALSE, attempts |-> attempt]
    ELSE IF r[attempt + 1]
         THEN [success |-> TRUE, attempts |-> attempt + 1]
         ELSE RetryLoop(r, attempt + 1, max_retries)

\* The tracker's answers to the attempts for one alert.  The loop stops at
\* the first 200, so answers after it are never asked for and are not told
\* apart: the first 200 is followed by 200s.
AttemptResponses ==
    {r \in [1..CLAIM_RETRY_ATTEMPTS -> BOOLEAN] :
        \A k \in 1..(CLAIM_RETRY_ATTEMPTS - 1) : r[k] => r[k + 1]}

\* claim_github_alerts: per alert, the outcome of its own retry loop.
claim_github_alerts(alert_numbers, resp) ==
    [a \in alert_numbers |-> RetryLoop(resp[a], 0, CLAIM_RETRY_ATTEMPTS)]

\* unclaim_github_alerts: the same loop with the payload assignees = [].
unclaim_github_alerts(alert_numbers, resp) ==
    [a \in alert_numbers |-> RetryLoop(resp[a], 0, CLAIM_RETRY_ATTEMPTS)]

\* close_github_alerts: one PATCH per alert, no retry.
close_github_alerts(alert_numbers, resp) ==
    [a \in alert_numbers |-> [success |-> resp[a], attempts |-> 1]]

\* Faulty variant of Succeeded: every alert asked for counts as a success.
Succeeded_All(results) == DOMAIN results

Succeeded(results) == {a \in DOMAIN results : results[a].success}

\* Faulty variant of Failed: no failure is ever seen.
Failed_None(results) == {}

Failed(results) == {a \in DOMAIN results : ~results[a].success}

\* -------------------------------------------------------- outcome reconciler
\* Faulty variant of CloseTargets: a timed-out session's alerts are closed
\* as if it had succeeded.
CloseTargets_ClosesOnTimeout(result) ==
    IF result.alert_numbers = {} THEN {}
    ELSE IF result.status \in {SUCCESS, TIMEOUT} THEN result.alert_numbers
    ELSE IF result.status = PARTIAL THEN result.fixed_alerts
    ELSE {}

\* The alert numbers handle_session_outcome passes to close_github_alerts.
CloseTargets(result) ==
    IF result.alert_numbers = {} THEN {}
    ELSE IF result.status = SUCCESS THEN result.alert_numbers
    ELSE IF result.status = FAILURE THEN {}
    ELSE IF result.status = PARTIAL THEN result.fixed_alerts
    ELSE {}

\* Faulty variant of UnclaimTargets: a PARTIAL result has every assigned
\* alert unclaimed, the fixed ones included.
UnclaimTargets_PartialAll(result) ==
    IF result.alert_numbers = {} THEN {}
    ELSE IF result.status = SUCCESS THEN {}
    ELSE IF result.status \in {FAILURE, PARTIAL, STUCK, TIMEOUT} THEN result.alert_numbers
    ELSE {}

\* Faulty variant of UnclaimTargets: the STUCK / TIMEOUT branch handles
\* TIMEOUT only.
UnclaimTargets_NotStuck(result) ==
    IF result.alert_numbers = {} THEN {}
    ELSE IF result.status = SUCCESS THEN {}
    ELSE IF result.status = FAILURE THEN result.alert_numbers
    ELSE IF result.status = PARTIAL THEN result.alert_numbers \ result.fixed_alerts
    ELSE IF result.status = TIMEOUT THEN result.alert_numbers
    ELSE {}

\* The alert numbers handle_session_outcome passes to unclaim_github_alerts.
UnclaimTargets(result) ==
    IF result.alert_numbers = {} THEN {}
    ELSE IF result.status = SUCCESS THEN {}
    ELSE IF result.status = FAILURE THEN result.alert_numbers
    ELSE IF result.status = PARTIAL THEN result.alert_numbers \ result.fixed_alerts
    ELSE IF result.status \in {STUCK, TIMEOUT} THEN result.alert_numbers
    ELSE {}

\* Faulty variant of handle_session_outcome: on SUCCESS every assigned alert
\* is reported fixed whatever the close requests answered.
handle_session_outcome_AllFixed(result, close_resp, unclaim_resp) ==
    IF result.alert_numbers = {} THEN result
    ELSE IF result.status = SUCCESS
    THEN [result EXCEPT !.fixed_alerts = result.alert_numbers]
    ELSE IF result.status \in {FAILURE, STUCK, TIMEOUT}
    THEN [result EXCEPT !.unfixed_alerts = result.alert_numbers]
    ELSE result

\* Faulty variant of handle_session_outcome: the early return for a result
\* without alert numbers is missing.
handle_session_outcome_NoEarlyReturn(result, close_resp, unclaim_resp) ==
    LET alert_numbers == result.alert_numbers
        close_results == close_github_alerts(CloseTargets(result), close_resp)
    IN  IF result.status = SUCCESS
        THEN [result EXCEPT !.fixed_alerts = Succeeded(close_results),
                            !.unfixed_alerts = Failed(close_results)]
        ELSE IF result.status \in {FAILURE, STUCK, TIMEOUT}
        THEN [result EXCEPT !.unfixed_alerts = alert_numbers]
        ELSE IF result.status = PARTIAL /\ alert_numbers \ result.fixed_alerts # {}
        THEN [result EXCEPT !.unfixed_alerts = alert_numbers \ result.fixed_alerts]
        ELSE result

\* handle_session_outcome: the updated result, given the tracker's answers
\* to the close requests (close_resp) and to the unclaim attempts
\* (unclaim_resp).
handle_session_outcome(result, close_resp, unclaim_resp) ==
    LET alert_numbers == result.alert_numbers
        close_results == close_github_alerts(CloseTargets(result), close_resp)
        unclaim_results == unclaim_github_alerts(UnclaimTargets(result), unclaim_resp)
    IN  IF alert_numbers = {} THEN result
        ELSE IF result.status = SUCCESS
        THEN [result EXCEPT !.fixed_alerts = Succeeded(close_results),
                            !.unfixed_alerts = Failed(close_results)]
        ELSE IF result.status = FAILURE
        THEN [result EXCEPT !.unfixed_alerts = alert_numbers]
        ELSE IF result.status = PARTIAL
        THEN IF alert_numbers \ result.fixed_alerts # {}
             THEN [result EXCEPT !.unfixed_alerts = alert_numbers \ result.fixed_alerts]
             ELSE result
        ELSE IF result.status \in {STUCK, TIMEOUT}
        THEN [result EXCEPT !.unfixed_alerts = alert_numbers]
        ELSE result

\* ------------------------------------------------------------ poll loop
\* What get_devin_session_status hands back: NoData models None (a non-200
\* answer or a RequestException); FetchRaises models an exception that
\* escapes it (get_devin_api_key raising ValueError).
NoData == [data |-> "none"]
FetchRaises == [data |-> "raises"]

\* A status answer.  status is status_enum (or status, or "unknown");
\* structured_output "none" models None; pull_request "none" models an
\* absent (falsy) pull_request, otherwise it is the value of its url.
StatusResponse(status, status_message, structured_output, pull_request) ==
    [status |-> status, status_message |-> status_message,
     structured_output |-> structured_output, pull_request |-> pull_request]

\* Python truthiness of an optional string.
Truthy(s) == s \notin {"none", ""}

\* Local variables of poll_session_status before the loop; start_time is 0.
InitialPollState ==
    [now |-> 0, last_activity_time |-> 0,
     last_status_message |-> "", last_structured_output |-> "none"]

\* Faulty variant of TimedOut: the loop has no timeout.
TimedOut_Never(elapsed) == FALSE

\* Faulty variant of TimedOut: the 20 minutes of the docstring of
\* poll_session_status instead of the configured SESSION_TIMEOUT_SECONDS.
TimedOut_TwentyMinutes(elapsed) == elapsed > 1200

TimedOut(elapsed) == elapsed > SESSION_TIMEOUT_SECONDS

Stagnated(stagnation_time) == stagnation_time > STAGNATION_THRESHOLD_SECONDS

\* Faulty variant of ClassifyResponse: a blocked session is handed back
\* as still pending.
ClassifyResponse_BlockedPending(sid, resp) ==
    IF Truthy(resp.pull_request)
    THEN SessionResult(SUCCESS, sid, 0, {}, resp.pull_request, "none")
    ELSE IF resp.status \in {"finished", "completed", "success"}
    THEN SessionResult(SUCCESS, sid, 0, {}, "none", "none")
    ELSE IF resp.status \in {"failed", "error", "cancelled"}
    THEN SessionResult(FAILURE, sid, 0, {}, "none",
                       IF resp.status_message # "" THEN resp.status_message
                       ELSE "Session ended with status")
    ELSE IF resp.status = "blocked"
    THEN SessionResult(PENDING, sid, 0, {}, "none",
                       "Session is blocked and requires manual intervention")
    ELSE NoResult

\* Faulty variant of ClassifyResponse: a blocked session is waited for.
ClassifyResponse_BlockedWaits(sid, resp) ==
    IF Truthy(resp.pull_request)
    THEN SessionResult(SUCCESS, sid, 0, {}, resp.pull_request, "none")
    ELSE IF resp.status \in {"finished", "completed", "success"}
    THEN SessionResult(SUCCESS, sid, 0, {}, "none", "none")
    ELSE IF resp.status \in {"failed", "error", "cancelled"}
    THEN SessionResult(FAILURE, sid, 0, {}, "none",
                       IF resp.status_message # "" THEN resp.status_message
                       ELSE "Session ended with status")
    ELSE NoResult

\* Faulty variant of ClassifyResponse: a completion keyword without a pull
\* request is reported as PARTIAL.
ClassifyResponse_Partial(sid, resp) ==
    IF Truthy(resp.pull_request)
    THEN SessionResult(SUCCESS, sid, 0, {}, resp.pull_request, "none")
    ELSE IF resp.status \in {"finished", "completed", "success"}
    THEN SessionResult(PARTIAL, sid, 0, {}, "none", "none")
    ELSE IF resp.status \in {"failed", "error", "cancelled"}
    THEN SessionResult(FAILURE, sid, 0, {}, "none",
                       IF resp.status_message # "" THEN resp.status_message
                       ELSE "Session ended with status")
    ELSE IF resp.status = "blocked"
    THEN SessionResult(FAILURE, sid, 0, {}, "none",
                       "Session is blocked and requires manual intervention")
    ELSE NoResult

\* Faulty variant of ClassifyResponse: the failure keywords are looked at
\* before the pull request.
ClassifyResponse_StatusFirst(sid, resp) ==
    IF resp.status \in {"failed", "error", "cancelled"}
    THEN SessionResult(FAILURE, sid, 0, {}, "none",
                       IF resp.status_message # "" THEN resp.status_message
                       ELSE "Session ended with status")
    ELSE IF resp.status = "blocked"
    THEN SessionResult(FAILURE, sid, 0, {}, "none",
                       "Session is blocked and requires manual intervention")
    ELSE IF Truthy(resp.pull_request)
    THEN SessionResult(SUCCESS, sid, 0, {}, resp.pull_request, "none")
    ELSE IF resp.status \in {"finished", "completed", "success"}
    THEN SessionResult(SUCCESS, sid, 0, {}, "none", "none")
    ELSE NoResult

\* The part of a loop iteration after the stagnation check: the terminal
\* result the response yields, or NoResult when the loop goes on.
ClassifyResponse(sid, resp) ==
    LET pr_url == IF resp.pull_request = "none" THEN "none" ELSE resp.pull_request
    IN  IF Truthy(pr_url)
        THEN SessionResult(SUCCESS, sid, 0, {}, pr_url, "none")
        ELSE IF resp.status \in {"finished", "completed", "success"}
        THEN SessionResult(SUCCESS, sid, 0, {}, pr_url, "none")
        ELSE IF resp.status \in {"failed", "error", "cancelled"}
        THEN SessionResult(FAILURE, sid, 0, {}, "none",
                           IF resp.status_message # "" THEN resp.status_message
                           ELSE "Session ended with status")
        ELSE IF resp.status = "blocked"
        THEN SessionResult(FAILURE, sid, 0, {}, "none",
                           "Session is blocked and requires manual intervention")
        ELSE NoResult

\* Faulty variant of ContentChanged: any answer counts as progress.
ContentChanged_Always(ps, resp) == TRUE

\* Line 211: the answer differs from what the loop remembers.
ContentChanged(ps, resp) ==
    \/ resp.status_message # ps.last_status_message
    \/ resp.structured_output # ps.last_structured_output

\* Faulty variant of PollIteration: every fetch, failed or not, counts as
\* activity, so that no iteration finds the session stagnated.
PollIteration_FailureIsActivity(ps, sid, resp, latency) ==
    IF ps.now > SESSION_TIMEOUT_SECONDS
    THEN [result |-> SessionResult(TIMEOUT, sid, 0, {}, "none", "Session timed out"),
          ps |-> ps, fetched |-> FALSE]
    ELSE IF resp = NoData
    THEN [result |-> NoResult,
          ps |-> [ps EXCEPT !.now = ps.now + latency,
                            !.last_activity_time = ps.now + latency],
          fetched |-> TRUE]
    ELSE [result |-> ClassifyResponse(sid, resp),
          ps |-> [now |-> ps.now + latency, last_activity_time |-> ps.now + latency,
                  last_status_message |-> resp.status_message,
                  last_structured_output |-> resp.structured_output],
          fetched |-> TRUE]

\* One iteration of the while-loop up to (not including) the closing sleep.
\* ps.now is the clock at the top of the iteration; the fetch takes latency
\* seconds.  result is NoResult when the loop continues.
PollIteration(ps, sid, resp, latency) ==
    LET elapsed == ps.now
        now == ps.now + latency
    IN  IF TimedOut(elapsed)
        THEN [result |-> SessionResult(TIMEOUT, sid, 0, {}, "none", "Session timed out"),
              ps |-> ps, fetched |-> FALSE]
        ELSE IF resp = NoData
        THEN [result |-> NoResult, ps |-> [ps EXCEPT !.now = now], fetched |-> TRUE]
        ELSE LET changed == ContentChanged(ps, resp)
                 ps1 == IF changed
                        THEN [now |-> now, last_activity_time |-> now,
                              last_status_message |-> resp.status_message,
                              last_structured_output |-> resp.structured_output]
                        ELSE [ps EXCEPT !.now = now]
                 stagnation_time == now - ps1.last_activity_time
             IN  IF Stagnated(stagnation_time)
                 THEN [result |-> SessionResult(STUCK, sid, 0, {}, "none", "Session stagnated"),
                       ps |-> ps1, fetched |-> TRUE]
                 ELSE [result |-> ClassifyResponse(sid, resp), ps |-> ps1, fetched |-> TRUE]

\* time.sleep(poll_interval): the clock moves on by the interval plus the
\* time the thread oversleeps.
Sleep(ps, oversleep) == [ps EXCEPT !.now = @ + POLL_INTERVAL_SECONDS + oversleep]

\* ------------------------------------------------------------------ state
VARIABLES
    batches,                  \* keys of the batch map given to dispatch_threads
    tasks,                    \* tasks[b]: the alert_number of each task of batch b
    max_workers,              \* ThreadPoolExecutor(max_workers=...)
    available_session_slots,  \* argument of dispatch_threads
    dashboard,                \* "none" (None), "enabled" or "disabled" (self.enabled)
    dpc,                      \* dispatch_threads: "call", "fanin", "returned";
                              \* "idle" while the supervisor has not called it
    results,                  \* the list dispatch_threads returns
    collected,                \* futures as_completed has already yielded
    session_semaphore,        \* value of threading.Semaphore; -1 before it exists
    state,                    \* OrchestratorState
    pc,                       \* pc[b]: where process_batch(b) stands
    alert_numbers,            \* local alert_numbers of process_batch(b)
    session_id,               \* local session_id of process_batch(b); 0 models ""
    poll,                     \* poll_session_status(b) while it runs and until its
                              \* caller uses its result: its locals (ps), its last
                              \* iteration (iter), the status fetches it made and
                              \* the statuses it returned
    result,                   \* the SessionResult process_batch(b) is about to return
    exc,                      \* the exception propagating out of process_batch(b)
    calls,                    \* per batch: the outward calls made so far
    assignees,                \* the tracker: assignees[a] of code scanning alert a
    coord,                    \* coord[i]: the claim coordinator call that
                              \* orchestrator instance i is making
    run,                      \* the run supervisor: where it stands and what
                              \* its capacity probe answered
    reconciliation,           \* handle_session_outcome applied on its own: the
                              \* result it is given and returns, and the calls
                              \* it makes
    locking,                  \* OrchestratorState statement by statement: the
                              \* owner of its lock and, per worker thread, the
                              \* method it is in and where it stands
    slack                     \* SentinelDashboard.update statement by statement:
                              \* the owner of its lock, msg_ts, the Slack API
                              \* calls made and where each worker thread stands

vars == <<batches, tasks, max_workers, available_session_slots, dashboard, dpc,
          results, collected, session_semaphore, state, pc, alert_numbers,
          session_id, poll, result, exc, calls, assignees, coord, run,
          reconciliation, locking, slack>>

\* The variables of the claim coordinator run on its own.
coordinator == <<assignees, coord>>

inputs == <<batches, tasks, max_workers, available_session_slots>>

NoException == "none"

NoCalls ==
    [claim |-> {}, claimed |-> {}, prompt |-> {}, acquire |-> 0, create |-> 0,
     close |-> {}, closed |-> {}, unclaim |-> {}, unclaimed |-> {}, sleep |-> 0,
     release |-> 0]

NoIteration == [elapsed |-> 0, idle |-> 0, resp |-> NoData, fetched |-> FALSE]

NotPolling == [ps |-> InitialPollState, iter |-> NoIteration, fetches |-> 0, returned |-> <<>>]

\* The dispatch pipeline before dispatch_threads is called.
PipelineIdle(BatchSets, TaskSets, Workers, Slots, Dashboards) ==
    /\ batches \in BatchSets
    /\ tasks \in [BatchIds -> TaskSets \cup {{NoAlert}}]
    /\ \A b \in BatchIds :
          IF b \in batches
          THEN tasks[b] \in TaskSets /\ tasks[b] \subseteq AlertIds(b) \cup {NoAlert}
          ELSE tasks[b] = {NoAlert}
    /\ max_workers \in Workers
    /\ available_session_slots \in Slots
    /\ dashboard \in Dashboards
    /\ results = EmptyBag
    /\ collected = {}
    /\ session_semaphore = -1
    /\ state = [session_to_alerts |-> <<>>, session_to_batch |-> <<>>,
                results |-> EmptyBag]
    /\ pc = [b \in BatchIds |-> "absent"]
    /\ alert_numbers = [b \in BatchIds |-> {}]
    /\ session_id = [b \in BatchIds |-> 0]
    /\ poll = [b \in BatchIds |-> NotPolling]
    /\ result = [b \in BatchIds |-> NoResult]
    /\ exc = [b \in BatchIds |-> NoException]
    /\ calls = [b \in BatchIds |-> NoCalls]

\* No supervisor: dispatch_threads is called directly.
NoRun == [pc |-> "absent", active_count |-> 0, available |-> -1, message |-> "none"]

\* handle_session_outcome is not applied on its own.
NoOutcome == [history |-> <<>>, close_calls |-> <<>>, unclaim_calls |-> <<>>]

\* The methods of OrchestratorState.
StateMethods == {"register_session", "add_result", "get_alerts_for_session"}

\* A worker thread that calls no method of OrchestratorState on its own:
\* the pipeline's Register and AddResult steps are whole method calls.
IdleThread ==
    [op |-> "none", at |-> "idle", todo |-> {}, returned |-> {}, arg |-> 0,
     seen |-> {}]

NoLocking == [owner |-> 0, threads |-> [t \in BatchIds |-> IdleThread]]

\* A dashboard nobody has transmitted with: msg_ts is None (0), no thread
\* is inside update.  In the pipeline a dashboard.update call is one step.
NoSlack ==
    [owner |-> 0, msg_ts |-> 0, posted |-> 0, api_calls |-> 0,
     threads |-> [t \in BatchIds |-> [at |-> "idle", left |-> 0]]]

\* dispatch_threads is being called with the given arguments.
PipelineWith(BatchSets, TaskSets, Workers, Slots, Dashboards) ==
    /\ PipelineIdle(BatchSets, TaskSets, Workers, Slots, Dashboards)
    /\ dpc = "call"
    /\ run = NoRun
    /\ reconciliation = NoOutcome
    /\ locking = NoLocking
    /\ slack = NoSlack

\* Orchestrator instances running against the same repository, and the
\* alerts of the repository they may both ask for.
Instances == 1..NumInstances
TrackedAlerts == AlertIds(1)

\* An instance that makes no claim coordinator call.
AbsentCall ==
    [op |-> "absent", alert_numbers |-> <<>>, max_retries |-> CLAIM_RETRY_ATTEMPTS,
     idx |-> 1, attempt |-> 0, answers |-> <<>>, results |-> <<>>,
     returned |-> FALSE, pre |-> <<>>, claimed |-> FALSE]

\* The claim coordinator is not run on its own.
CoordinatorAbsent ==
    /\ assignees = [a \in TrackedAlerts |-> {}]
    /\ coord = [i \in Instances |-> AbsentCall]

InitWith(BatchSets, TaskSets, Workers, Slots, Dashboards) ==
    /\ PipelineWith(BatchSets, TaskSets, Workers, Slots, Dashboards)
    /\ CoordinatorAbsent

\* ------------------------------------------------------- dispatch_threads
\* Faulty variant of NoBatches: the test is missing.
NoBatches_Never(batch_map) == FALSE

\* Line 218, `if not batches:`.
NoBatches(batch_map) == batch_map = {}

\* Lines 218-243: the empty-map return, or OrchestratorState(), the
\* semaphore and the submission of one future per batch.
Dispatch ==
    /\ dpc = "call"
    /\ IF NoBatches(batches)
       THEN /\ dpc' = "returned"
            /\ UNCHANGED <<session_semaphore, pc>>
       ELSE /\ dpc' = "fanin"
            /\ session_semaphore' = available_session_slots
            /\ pc' = [b \in BatchIds |-> IF b \in batches THEN "queued" ELSE "absent"]
    /\ UNCHANGED <<slack, locking, reconciliation, run, coordinator, inputs, dashboard, results, collected, state, alert_numbers,
                   session_id, poll, result, exc, calls>>

\* Batches whose process_batch is running on a pool thread.
Running == {b \in BatchIds : pc[b] \notin {"absent", "queued", "done"}}

\* Faulty variant of extract_alert_numbers: tasks without an alert number
\* are not left out.
extract_alert_numbers_KeepsNone(batch_tasks) == batch_tasks

\* extract_alert_numbers.
extract_alert_numbers(batch_tasks) == batch_tasks \ {NoAlert}

\* Faulty variant of IdleWorker: the pool starts a thread for every work
\* item.
IdleWorker_Unbounded(running, workers) == TRUE

\* ThreadPoolExecutor(max_workers=max_workers), line 230: a work item is
\* taken off the queue only by one of at most max_workers threads, each of
\* which runs one work item at a time.
IdleWorker(running, workers) == Cardinality(running) < workers

\* A free pool thread takes the oldest queued work item and runs
\* process_batch lines 79-95.
Start(b) ==
    /\ pc[b] = "queued"
    /\ \A c \in BatchIds : pc[c] = "queued" => b <= c
    /\ IdleWorker(Running, max_workers)
    /\ LET nums == extract_alert_numbers(tasks[b])
       IN  /\ alert_numbers' = [alert_numbers EXCEPT ![b] = nums]
           /\ IF nums = {}
              THEN /\ result' = [result EXCEPT ![b] =
                          SessionResult(FAILURE, 0, b, {}, "none",
                                        "No alerts found in batch data")]
                   /\ pc' = [pc EXCEPT ![b] = "done"]
              ELSE /\ pc' = [pc EXCEPT ![b] = "claim"]
                   /\ UNCHANGED result
    /\ UNCHANGED <<slack, locking, reconciliation, run, coordinator, inputs, dashboard, dpc, results, collected, session_semaphore,
                   state, session_id, poll, exc, calls>>

\* Faulty variant of NoneClaimed: the test is missing.
NoneClaimed_Never(claimed_alerts) == FALSE

\* Line 103, `if not claimed_alerts:`.
NoneClaimed(claimed_alerts) == claimed_alerts = {}

\* Lines 97-125; the error_message of line 110 is modelled by its fixed
\* prefix.  raises: get_github_token or _get_bot_username raises before
\* any request is made.
Claim(b) ==
    /\ pc[b] = "claim"
    /\ \E raises \in BOOLEAN, resp \in [alert_numbers[b] -> AttemptResponses] :
          IF raises
          THEN /\ exc' = [exc EXCEPT ![b] = "claim_github_alerts raised"]
               /\ pc' = [pc EXCEPT ![b] = "done"]
               /\ UNCHANGED <<alert_numbers, result, calls>>
          ELSE LET claim_results == claim_github_alerts(alert_numbers[b], resp)
                   claimed_alerts == Succeeded(claim_results)
                   failed_claims == Failed(claim_results)
               IN  /\ calls' = [calls EXCEPT ![b].claim = alert_numbers[b],
                                             ![b].claimed = claimed_alerts]
                   /\ exc' = exc
                   /\ IF NoneClaimed(claimed_alerts)
                      THEN /\ result' = [result EXCEPT ![b] =
                                  SessionResult(FAILURE, 0, b, alert_numbers[b], "none",
                                                "Failed to claim alerts")]
                           /\ pc' = [pc EXCEPT ![b] = "done"]
                           /\ UNCHANGED alert_numbers
                      ELSE /\ alert_numbers' = [alert_numbers EXCEPT ![b] =
                                  IF failed_claims # {} THEN claimed_alerts ELSE @]
                           /\ pc' = [pc EXCEPT ![b] = "acquire"]
                           /\ UNCHANGED result
    /\ UNCHANGED <<slack, locking, reconciliation, run, coordinator, inputs, dashboard, dpc, results, collected, session_semaphore,
                   state, session_id, poll>>

\* Faulty variant of SemAcquire: the value is not decremented.
SemAcquire_NoDecrement(value) == value

\* threading.Semaphore.acquire: blocks while the value is 0.
SemAcquire(value) == value - 1

\* threading.Semaphore.release.
SemRelease(value) == value + 1

\* Lines 127-130.
Acquire(b) ==
    /\ pc[b] = "acquire"
    /\ session_semaphore > 0
    /\ session_semaphore' = SemAcquire(session_semaphore)
    /\ calls' = [calls EXCEPT ![b].acquire = @ + 1]
    /\ pc' = [pc EXCEPT ![b] = "create"]
    /\ UNCHANGED <<slack, locking, reconciliation, run, coordinator, inputs, dashboard, dpc, results, collected, state, alert_numbers,
                   session_id, poll, result, exc>>

\* Entering the finally block of process_batch with a return value.
ReturnVia(b, r) ==
    /\ result' = [result EXCEPT ![b] = r]
    /\ exc' = exc
    /\ pc' = [pc EXCEPT ![b] = "sleep"]

\* Entering the finally block of process_batch with an exception: nothing
\* will be returned.
RaiseVia(b, text) ==
    /\ exc' = [exc EXCEPT ![b] = text]
    /\ result' = [result EXCEPT ![b] = NoResult]
    /\ pc' = [pc EXCEPT ![b] = "sleep"]

\* The program point after an `if dashboard: dashboard.update(...)`
\* statement at program point at: with dashboard None the test falls
\* through to next at once.
IfDashboard(at, next) == IF dashboard = "none" THEN next ELSE at

\* Lines 132-149.  create_devin_session answers a session, None, or raises
\* (get_devin_api_key raising ValueError).  The session id of batch b's
\* session is b.
Create(b) ==
    /\ pc[b] = "create"
    /\ \E outcome \in {"session", "none", "raises"} :
          /\ calls' = [calls EXCEPT ![b].create = IF outcome = "raises" THEN @ ELSE @ + 1,
                                    ![b].prompt = extract_alert_numbers(tasks[b])]
          /\ CASE outcome = "raises" ->
                    /\ RaiseVia(b, "create_devin_session raised")
                    /\ UNCHANGED session_id
               [] outcome = "none" ->
                    /\ ReturnVia(b, SessionResult(FAILURE, 0, b, alert_numbers[b], "none",
                                                  "Failed to create Devin session"))
                    /\ UNCHANGED session_id
               [] outcome = "session" ->
                    /\ session_id' = [session_id EXCEPT ![b] = b]
                    /\ pc' = [pc EXCEPT ![b] = IfDashboard("started", "register")]
                    /\ UNCHANGED <<result, exc>>
    /\ UNCHANGED <<slack, locking, reconciliation, run, coordinator, inputs, dashboard, dpc, results, collected, session_semaphore,
                   state, alert_numbers, poll>>

\* What SentinelDashboard.update can do: nothing but print when the
\* dashboard is absent or disabled; when enabled, _transmit succeeds, or
\* catches SlackApiError and disables the dashboard, or lets any other
\* exception of the Slack client through.
DashboardOutcomes(d) ==
    IF d = "enabled" THEN {"ok", "slack_api_error", "raises"} ELSE {"ok"}

\* if dashboard: dashboard.update(...), then on to program point next.
DashboardUpdate(b, next) ==
    \E outcome \in DashboardOutcomes(dashboard) :
       /\ dashboard' = IF outcome = "slack_api_error" THEN "disabled" ELSE dashboard
       /\ IF outcome = "raises"
          THEN RaiseVia(b, "dashboard.update raised")
          ELSE /\ pc' = [pc EXCEPT ![b] = next]
               /\ UNCHANGED <<result, exc>>

\* Lines 151-152.
Started(b) ==
    /\ pc[b] = "started"
    /\ DashboardUpdate(b, "register")
    /\ UNCHANGED <<slack, locking, reconciliation, run, coordinator, inputs, dpc, results, collected, session_semaphore, state,
                   alert_numbers, session_id, poll, calls>>

\* OrchestratorState.register_session, under its lock.
register_session(st, sid, batch_id, nums) ==
    [st EXCEPT !.session_to_alerts = (sid :> nums) @@ @,
               !.session_to_batch = (sid :> batch_id) @@ @]

\* OrchestratorState.add_result, under its lock.
add_result(st, r) == [st EXCEPT !.results = @ (+) SetToBag({r})]

\* Faulty variant of Register: the session is not yet registered when
\* polling starts.
Register_Skipped(b) ==
    /\ pc[b] = "register"
    /\ pc' = [pc EXCEPT ![b] = IfDashboard("analyzing", "poll")]
    /\ UNCHANGED <<slack, locking, reconciliation, run, coordinator, inputs, dashboard, dpc, results, collected, session_semaphore,
                   state, alert_numbers, session_id, poll, result, exc, calls>>

\* Line 154.
Register(b) ==
    /\ pc[b] = "register"
    /\ state' = register_session(state, session_id[b], b, alert_numbers[b])
    /\ pc' = [pc EXCEPT ![b] = IfDashboard("analyzing", "poll")]
    /\ UNCHANGED <<slack, locking, reconciliation, run, coordinator, inputs, dashboard, dpc, results, collected, session_semaphore,
                   alert_numbers, session_id, poll, result, exc, calls>>

\* Lines 156-157.
Analyzing(b) ==
    /\ pc[b] = "analyzing"
    /\ DashboardUpdate(b, "poll")
    /\ UNCHANGED <<slack, locking, reconciliation, run, coordinator, inputs, dpc, results, collected, session_semaphore, state,
                   alert_numbers, session_id, poll, calls>>

\* Line 159: one iteration of the loop of poll_session_status, with the
\* answer of the status fetch, its duration and the oversleep of the
\* closing time.sleep drawn from the given sets.
PollIterate(b, Responses, Latencies, Oversleeps) ==
    /\ pc[b] = "poll"
    /\ \E resp \in Responses \cup {NoData, FetchRaises}, latency \in Latencies,
          oversleep \in Oversleeps :
          LET ps == poll[b].ps
              it == PollIteration(ps, session_id[b],
                                  IF resp = FetchRaises THEN NoData ELSE resp, latency)
              iter == [elapsed |-> ps.now, idle |-> ps.now - ps.last_activity_time,
                       resp |-> resp, fetched |-> it.fetched]
              fetches == IF it.fetched THEN poll[b].fetches + 1 ELSE poll[b].fetches
          IN  IF it.fetched /\ resp = FetchRaises
              THEN /\ RaiseVia(b, "poll_session_status raised")
                   /\ poll' = [poll EXCEPT ![b] = NotPolling]
              ELSE IF it.result # NoResult
              THEN /\ result' = [result EXCEPT ![b] = it.result]
                   /\ pc' = [pc EXCEPT ![b] = "reconcile"]
                   /\ poll' = [poll EXCEPT ![b] =
                          [ps |-> it.ps, iter |-> iter, fetches |-> fetches,
                           returned |-> Append(poll[b].returned, it.result.status)]]
                   /\ exc' = exc
              ELSE /\ poll' = [poll EXCEPT ![b] =
                          [ps |-> Sleep(it.ps, oversleep), iter |-> iter,
                           fetches |-> fetches, returned |-> poll[b].returned]]
                   /\ UNCHANGED <<pc, result, exc>>
    /\ UNCHANGED <<slack, locking, reconciliation, run, coordinator, inputs, dashboard, dpc, results, collected, session_semaphore,
                   state, alert_numbers, session_id, calls>>

\* Lines 161-164; the locals of the finished poll_session_status call are
\* gone.  raises: get_github_token raises inside close_github_alerts or
\* unclaim_github_alerts, before any request is made.
Reconcile(b) ==
    /\ pc[b] = "reconcile"
    /\ LET r == [result[b] EXCEPT !.batch_id = b, !.alert_numbers = alert_numbers[b]]
       IN  \E raises \in BOOLEAN,
              close_resp \in [CloseTargets(r) -> BOOLEAN],
              unclaim_resp \in [UnclaimTargets(r) -> AttemptResponses] :
              IF raises /\ CloseTargets(r) \cup UnclaimTargets(r) # {}
              THEN /\ RaiseVia(b, "handle_session_outcome raised")
                   /\ UNCHANGED calls
              ELSE /\ result' = [result EXCEPT ![b] =
                          handle_session_outcome(r, close_resp, unclaim_resp)]
                   /\ calls' = [calls EXCEPT
                          ![b].close = @ \cup CloseTargets(r),
                          ![b].closed = @ \cup {a \in CloseTargets(r) : close_resp[a]},
                          ![b].unclaim = @ \cup UnclaimTargets(r),
                          ![b].unclaimed = @ \cup {a \in UnclaimTargets(r) :
                                                     \E k \in 1..CLAIM_RETRY_ATTEMPTS :
                                                        unclaim_resp[a][k]}]
                   /\ pc' = [pc EXCEPT ![b] = "add_result"]
                   /\ exc' = exc
    /\ poll' = [poll EXCEPT ![b] = NotPolling]
    /\ UNCHANGED <<slack, locking, reconciliation, run, coordinator, inputs, dashboard, dpc, results, collected, session_semaphore,
                   state, alert_numbers, session_id>>

\* Line 166.
AddResult(b) ==
    /\ pc[b] = "add_result"
    /\ state' = add_result(state, result[b])
    /\ pc' = [pc EXCEPT ![b] = IfDashboard("completed", "sleep")]
    /\ UNCHANGED <<slack, locking, reconciliation, run, coordinator, inputs, dashboard, dpc, results, collected, session_semaphore,
                   alert_numbers, session_id, poll, result, exc, calls>>

\* Lines 168-172: the last dashboard update, then return result.
Completed(b) ==
    /\ pc[b] = "completed"
    /\ DashboardUpdate(b, "sleep")
    /\ UNCHANGED <<slack, locking, reconciliation, run, coordinator, inputs, dpc, results, collected, session_semaphore, state,
                   alert_numbers, session_id, poll, calls>>

\* Faulty variant of HasSession: the session id is never seen.
HasSession_Never(sid) == FALSE

\* Line 175, `if session_id:`.
HasSession(sid) == sid # 0

\* Lines 174-177, the first half of the finally block.  send_sleep_message
\* answers True or False, or raises (_get_devin_api_key raising ValueError);
\* an exception raised here leaves the finally block at once.
SendSleep(b) ==
    /\ pc[b] = "sleep"
    /\ IF HasSession(session_id[b])
       THEN \E outcome \in {"sent", "failed", "raises"} :
               IF outcome = "raises"
               THEN /\ exc' = [exc EXCEPT ![b] = "send_sleep_message raised"]
                    /\ result' = [result EXCEPT ![b] = NoResult]
                    /\ pc' = [pc EXCEPT ![b] = "done"]
                    /\ UNCHANGED calls
               ELSE /\ calls' = [calls EXCEPT ![b].sleep = @ + 1]
                    /\ pc' = [pc EXCEPT ![b] = "release"]
                    /\ UNCHANGED <<result, exc>>
       ELSE /\ pc' = [pc EXCEPT ![b] = "release"]
            /\ UNCHANGED <<result, exc, calls>>
    /\ UNCHANGED <<slack, locking, reconciliation, run, coordinator, inputs, dashboard, dpc, results, collected, session_semaphore,
                   state, alert_numbers, session_id, poll>>

\* Lines 179-181, the second half of the finally block; the return value or
\* the exception of the try block then leaves process_batch.
Release(b) ==
    /\ pc[b] = "release"
    /\ session_semaphore' = SemRelease(session_semaphore)
    /\ calls' = [calls EXCEPT ![b].release = @ + 1]
    /\ pc' = [pc EXCEPT ![b] = "done"]
    /\ UNCHANGED <<slack, locking, reconciliation, run, coordinator, inputs, dashboard, dpc, results, collected, state, alert_numbers,
                   session_id, poll, result, exc>>

\* What future.result() does for a finished process_batch(b).
FutureRaises(b) == exc[b] # NoException

\* Faulty variant of future_to_batch: every future maps to the first batch.
future_to_batch_First(b) == 1

\* future_to_batch[future] for the future of process_batch(b).
future_to_batch(b) == b

\* Faulty variant of FanInResult: the text of the exception is dropped.
FanInResult_NoText(b) ==
    IF FutureRaises(b)
    THEN SessionResult(FAILURE, 0, future_to_batch(b), {}, "none", "none")
    ELSE result[b]

\* Lines 247-259: the result the fan-in loop appends for a finished future.
FanInResult(b) ==
    IF FutureRaises(b)
    THEN SessionResult(FAILURE, 0, future_to_batch(b), {}, "none", exc[b])
    ELSE result[b]

\* Lines 245-259: as_completed yields a finished future; its result, or
\* the FAILURE result made from its exception, is appended.
Collect(b) ==
    /\ dpc = "fanin"
    /\ pc[b] = "done"
    /\ b \notin collected
    /\ collected' = collected \cup {b}
    /\ results' = results (+) SetToBag({FanInResult(b)})
    /\ UNCHANGED <<slack, locking, reconciliation, run, coordinator, inputs, dashboard, dpc, session_semaphore, state, pc,
                   alert_numbers, session_id, poll, result, exc, calls>>

\* Line 261, once as_completed is exhausted and the executor has shut down.
Return ==
    /\ dpc = "fanin"
    /\ collected = batches
    /\ dpc' = "returned"
    /\ UNCHANGED <<slack, locking, reconciliation, run, coordinator, inputs, dashboard, results, collected, session_semaphore, state,
                   pc, alert_numbers, session_id, poll, result, exc, calls>>

\* ------------------------------------------- claim coordinator, step by step
\* claim_github_alerts and unclaim_github_alerts as instances of the
\* orchestrator run them against the tracker, one PATCH request per step.
Users == {"bot", "human"}

\* bot_username: DEVIN_BOT_USERNAME, or the owner of the token.
bot_username == "bot"

\* Faulty variant of Payload: unclaiming leaves the bot assigned.
Payload_UnclaimKeepsBot(op, username) == {username}

\* The "assignees" list of the PATCH payload of a claim / an unclaim.
Payload(op, username) == IF op = "claim" THEN {username} ELSE {}

\* The tracker: a PATCH answered 200 has set the alert's assignees to the
\* payload; a PATCH answered otherwise, or failing with a
\* RequestException, has changed nothing.
Patched(current, payload, ok) == IF ok THEN payload ELSE current

\* Faulty variant of RetryContinues: the loop does not break on success.
RetryContinues_NoBreak(success, attempt, max_retries) == attempt < max_retries - 1

\* After the attempt numbered attempt (from 0, as range(max_retries)
\* counts): whether the for-loop makes another attempt for the same alert.
RetryContinues(success, attempt, max_retries) ==
    ~success /\ attempt < max_retries - 1

\* Faulty variant of AfterAttempt: the attempt counter is not reset when
\* the loop moves on to the next alert.
AfterAttempt_SharedBudget(c, ok) ==
    LET a == c.alert_numbers[c.idx]
        answers == IF Len(c.answers) < c.idx
                   THEN Append(c.answers, <<ok>>)
                   ELSE [c.answers EXCEPT ![c.idx] = Append(@, ok)]
    IN  IF RetryContinues(ok, c.attempt, c.max_retries)
        THEN [c EXCEPT !.attempt = @ + 1, !.answers = answers]
        ELSE [c EXCEPT !.idx = @ + 1, !.answers = answers,
                       !.attempt = IF c.max_retries > 1 THEN c.max_retries - 1 ELSE 0,
                       !.results = (a :> ok) @@ @]

\* The locals of a running call after one PATCH request for the alert at
\* position idx of alert_numbers was answered (ok: with status 200).
\* answers[p] lists the answers to the requests made for position p.
AfterAttempt(c, ok) ==
    LET a == c.alert_numbers[c.idx]
        answers == IF Len(c.answers) < c.idx
                   THEN Append(c.answers, <<ok>>)
                   ELSE [c.answers EXCEPT ![c.idx] = Append(@, ok)]
    IN  IF RetryContinues(ok, c.attempt, c.max_retries)
        THEN [c EXCEPT !.attempt = @ + 1, !.answers = answers]
        ELSE [c EXCEPT !.idx = @ + 1, !.attempt = 0, !.answers = answers,
                       !.results = (a :> ok) @@ @]

\* Whether a returned call answered True for every alert it was given.
FullySuccessful(c) == \A a \in DOMAIN c.results : c.results[a]

\* Instance i calls claim_github_alerts, or unclaim_github_alerts (on its
\* own, or right after its claim_github_alerts returned, with the same
\* list).  raises: get_github_token or _get_bot_username raises before the
\* loop.
Call(i, op) ==
    /\ \/ coord[i].op = "idle"
       \/ op = "unclaim" /\ coord[i].op = "claim" /\ coord[i].returned
    /\ \E raises \in BOOLEAN :
          coord' = [coord EXCEPT ![i] =
             IF raises
             THEN [@ EXCEPT !.op = "raised", !.idx = 1, !.attempt = 0, !.answers = <<>>,
                            !.results = <<>>, !.returned = FALSE]
             ELSE [@ EXCEPT !.op = op, !.idx = 1, !.attempt = 0, !.answers = <<>>,
                            !.results = <<>>, !.returned = FALSE,
                            !.pre = IF coord[i].op = "idle" THEN assignees ELSE @,
                            !.claimed = coord[i].op = "claim" /\ FullySuccessful(coord[i])]]
    /\ UNCHANGED <<slack, locking, reconciliation, run, assignees, inputs, dashboard, dpc, results, collected,
                   session_semaphore, state, pc, alert_numbers, session_id, poll,
                   result, exc, calls>>

\* One requests.patch of the retry loop of instance i's call and the
\* tracker's answer to it.
Patch(i) ==
    /\ coord[i].op \in {"claim", "unclaim"}
    /\ ~coord[i].returned
    /\ coord[i].idx <= Len(coord[i].alert_numbers)
    /\ \E answer \in {"200", "other", "RequestException"} :
          LET a == coord[i].alert_numbers[coord[i].idx]
              ok == answer = "200"
          IN  /\ assignees' = [assignees EXCEPT ![a] =
                     Patched(@, Payload(coord[i].op, bot_username), ok)]
              /\ coord' = [coord EXCEPT ![i] = AfterAttempt(@, ok)]
    /\ UNCHANGED <<slack, locking, reconciliation, run, inputs, dashboard, dpc, results, collected, session_semaphore,
                   state, pc, alert_numbers, session_id, poll, result, exc, calls>>

\* return results, once the loop over alert_numbers is over.
ReturnCall(i) ==
    /\ coord[i].op \in {"claim", "unclaim"}
    /\ ~coord[i].returned
    /\ coord[i].idx > Len(coord[i].alert_numbers)
    /\ coord' = [coord EXCEPT ![i].returned = TRUE]
    /\ UNCHANGED <<slack, locking, reconciliation, run, assignees, inputs, dashboard, dpc, results, collected,
                   session_semaphore, state, pc, alert_numbers, session_id, poll,
                   result, exc, calls>>

\* --------------------------------------------- close_github_alerts, step by step
\* The tracker: the PATCH payload of close_github_alerts carries state and
\* dismissed_reason and no assignees, so an alert's assignees stay as they
\* are whether the request is answered 200 or not.
Dismissed(current, ok) == current

\* Faulty variant of AfterClose: a failed request is repeated once.
AfterClose_Retries(c, ok) ==
    LET a == c.alert_numbers[c.idx]
        answers == IF Len(c.answers) < c.idx
                   THEN Append(c.answers, <<ok>>)
                   ELSE [c.answers EXCEPT ![c.idx] = Append(@, ok)]
    IN  IF ~ok /\ c.attempt = 0
        THEN [c EXCEPT !.attempt = 1, !.answers = answers]
        ELSE [c EXCEPT !.idx = @ + 1, !.attempt = 0, !.answers = answers,
                       !.results = (a :> ok) @@ @]

\* The locals of a running close_github_alerts call after the PATCH request
\* for the alert at position idx of alert_numbers was answered (ok: with
\* status 200): results[alert_number] is set and the loop moves on.
AfterClose(c, ok) ==
    LET a == c.alert_numbers[c.idx]
    IN  [c EXCEPT !.idx = @ + 1, !.answers = Append(@, <<ok>>),
                  !.results = (a :> ok) @@ @]

\* Instance i calls close_github_alerts.  raises: get_github_token raises
\* before the loop.
CloseCall(i) ==
    /\ coord[i].op = "idle"
    /\ \E raises \in BOOLEAN :
          coord' = [coord EXCEPT ![i] =
             [@ EXCEPT !.op = IF raises THEN "raised" ELSE "close",
                       !.pre = IF raises THEN @ ELSE assignees]]
    /\ UNCHANGED <<slack, locking, reconciliation, run, assignees, inputs, dashboard, dpc, results, collected,
                   session_semaphore, state, pc, alert_numbers, session_id, poll,
                   result, exc, calls>>

\* The requests.patch for the next alert of instance i's close call and the
\* tracker's answer to it.
ClosePatch(i) ==
    /\ coord[i].op = "close"
    /\ ~coord[i].returned
    /\ coord[i].idx <= Len(coord[i].alert_numbers)
    /\ \E answer \in {"200", "other", "RequestException"} :
          LET a == coord[i].alert_numbers[coord[i].idx]
              ok == answer = "200"
          IN  /\ assignees' = [assignees EXCEPT ![a] = Dismissed(@, ok)]
              /\ coord' = [coord EXCEPT ![i] = AfterClose(@, ok)]
    /\ UNCHANGED <<slack, locking, reconciliation, run, inputs, dashboard, dpc, results, collected, session_semaphore,
                   state, pc, alert_numbers, session_id, poll, result, exc, calls>>

\* return results, once the loop over alert_numbers is over.
CloseReturn(i) ==
    /\ coord[i].op = "close"
    /\ ~coord[i].returned
    /\ coord[i].idx > Len(coord[i].alert_numbers)
    /\ coord' = [coord EXCEPT ![i].returned = TRUE]
    /\ UNCHANGED <<slack, locking, reconciliation, run, assignees, inputs, dashboard, dpc, results, collected,
                   session_semaphore, state, pc, alert_numbers, session_id, poll,
                   result, exc, calls>>

\* ------------------------------------------- OrchestratorState, step by step
\* The methods of OrchestratorState as worker threads run them: each is a
\* `with self.lock:` block around one or two statements on the shared
\* maps and list.  A dict store and a list append are single steps of the
\* interpreter.  Worker thread t registers its own session t.
\* Faulty variant of LockFree: the lock excludes nobody.
LockFree_Always(owner) == TRUE

\* threading.Lock: acquire blocks while another thread holds the lock.
LockFree(owner) == owner = 0

\* The result worker thread t adds.
ResultOf(t) == SessionResult(FAILURE, t, t, AlertIds(t), "none", "none")

\* Thread t calls a method it has not called yet.
CallMethod(t) ==
    /\ locking.threads[t].at = "idle"
    /\ \E op \in locking.threads[t].todo, sid \in BatchIds :
          locking' = [locking EXCEPT !.threads[t].op = op,
                                     !.threads[t].at = "lock",
                                     !.threads[t].arg =
                                        IF op = "get_alerts_for_session" THEN sid ELSE @]
    /\ UNCHANGED <<slack, reconciliation, run, coordinator, inputs, dashboard, dpc, results, collected,
                   session_semaphore, state, pc, alert_numbers, session_id, poll, result,
                   exc, calls>>

\* `with self.lock:` on entry.
LockAcquire(t) ==
    /\ locking.threads[t].at = "lock"
    /\ LockFree(locking.owner)
    /\ locking' = [locking EXCEPT
          !.owner = t,
          !.threads[t].at =
             CASE locking.threads[t].op = "register_session" -> "alerts"
               [] locking.threads[t].op = "add_result" -> "append"
               [] OTHER -> "get"]
    /\ UNCHANGED <<slack, reconciliation, run, coordinator, inputs, dashboard, dpc, results, collected,
                   session_semaphore, state, pc, alert_numbers, session_id, poll, result,
                   exc, calls>>

\* register_session: self.session_to_alerts[session_id] = alert_numbers.
StoreAlerts(t) ==
    /\ locking.threads[t].at = "alerts"
    /\ state' = [state EXCEPT !.session_to_alerts =
                    register_session(state, t, t, AlertIds(t)).session_to_alerts]
    /\ locking' = [locking EXCEPT !.threads[t].at = "batch"]
    /\ UNCHANGED <<slack, reconciliation, run, coordinator, inputs, dashboard, dpc, results, collected,
                   session_semaphore, pc, alert_numbers, session_id, poll, result,
                   exc, calls>>

\* register_session: self.session_to_batch[session_id] = batch_id.
StoreBatch(t) ==
    /\ locking.threads[t].at = "batch"
    /\ state' = [state EXCEPT !.session_to_batch =
                    register_session(state, t, t, AlertIds(t)).session_to_batch]
    /\ locking' = [locking EXCEPT !.threads[t].at = "unlock"]
    /\ UNCHANGED <<slack, reconciliation, run, coordinator, inputs, dashboard, dpc, results, collected,
                   session_semaphore, pc, alert_numbers, session_id, poll, result,
                   exc, calls>>

\* add_result: self.results.append(result).
AppendResult(t) ==
    /\ locking.threads[t].at = "append"
    /\ state' = add_result(state, ResultOf(t))
    /\ locking' = [locking EXCEPT !.threads[t].at = "unlock"]
    /\ UNCHANGED <<slack, reconciliation, run, coordinator, inputs, dashboard, dpc, results, collected,
                   session_semaphore, pc, alert_numbers, session_id, poll, result,
                   exc, calls>>

\* get_alerts_for_session: self.session_to_alerts.get(session_id, []).
GetAlerts(t) ==
    /\ locking.threads[t].at = "get"
    /\ locking' = [locking EXCEPT
          !.threads[t].at = "unlock",
          !.threads[t].seen =
             IF locking.threads[t].arg \in DOMAIN state.session_to_alerts
             THEN state.session_to_alerts[locking.threads[t].arg]
             ELSE {}]
    /\ UNCHANGED <<slack, reconciliation, run, coordinator, inputs, dashboard, dpc, results, collected,
                   session_semaphore, state, pc, alert_numbers, session_id, poll, result,
                   exc, calls>>

\* `with self.lock:` on exit; the method returns.
LockRelease(t) ==
    /\ locking.threads[t].at = "unlock"
    /\ locking' = [locking EXCEPT
          !.owner = 0,
          !.threads[t].at = "idle",
          !.threads[t].todo = @ \ {locking.threads[t].op},
          !.threads[t].returned = @ \cup {locking.threads[t].op}]
    /\ UNCHANGED <<slack, reconciliation, run, coordinator, inputs, dashboard, dpc, results, collected,
                   session_semaphore, state, pc, alert_numbers, session_id, poll, result,
                   exc, calls>>

\* ------------------------------------- SentinelDashboard.update, step by step
\* update as worker threads run it: the test of self.enabled, then the
\* `with self.lock:` block around the change of batch_info and the
\* transmission.  process_batch calls update three times.
UpdatesPerBatch == 3

\* Lines 155-157, `if not self.enabled:` print and return; otherwise the
\* thread goes on to the lock.
UpdateCheck(t) ==
    /\ slack.threads[t].at = "idle"
    /\ slack.threads[t].left > 0
    /\ slack' = IF dashboard # "enabled"
                THEN [slack EXCEPT !.threads[t].left = @ - 1]
                ELSE [slack EXCEPT !.threads[t].at = "lock"]
    /\ UNCHANGED dashboard
    /\ UNCHANGED <<locking, reconciliation, run, coordinator, inputs, dpc, results, collected,
                   session_semaphore, state, pc, alert_numbers, session_id, poll, result,
                   exc, calls>>

\* Line 159, `with self.lock:` on entry.
UpdateEnter(t) ==
    /\ slack.threads[t].at = "lock"
    /\ LockFree(slack.owner)
    /\ slack' = [slack EXCEPT !.owner = t, !.threads[t].at = "transmit"]
    /\ UNCHANGED dashboard
    /\ UNCHANGED <<locking, reconciliation, run, coordinator, inputs, dpc, results, collected,
                   session_semaphore, state, pc, alert_numbers, session_id, poll, result,
                   exc, calls>>

\* Lines 160-169 and _transmit, lines 517-525: chat_postMessage when msg_ts
\* is not set, chat_update otherwise.  The call succeeds (a post then sets
\* msg_ts), or raises SlackApiError, which is caught and sets enabled to
\* False, or raises something else, which leaves update.
Transmit(t) ==
    /\ slack.threads[t].at = "transmit"
    /\ \E outcome \in {"ok", "slack_api_error", "raises"} :
          /\ slack' = [slack EXCEPT
                !.api_calls = @ + 1,
                !.msg_ts = IF outcome = "ok" THEN 1 ELSE @,
                !.posted = IF outcome = "ok" /\ slack.msg_ts = 0 THEN @ + 1 ELSE @,
                !.threads[t].at = "unlock"]
          /\ dashboard' = IF outcome = "slack_api_error" THEN "disabled" ELSE dashboard
    /\ UNCHANGED <<locking, reconciliation, run, coordinator, inputs, dpc, results, collected,
                   session_semaphore, state, pc, alert_numbers, session_id, poll, result,
                   exc, calls>>

\* `with self.lock:` on exit, by return or by exception.
UpdateLeave(t) ==
    /\ slack.threads[t].at = "unlock"
    /\ slack' = [slack EXCEPT !.owner = 0, !.threads[t].at = "idle",
                              !.threads[t].left = @ - 1]
    /\ UNCHANGED dashboard
    /\ UNCHANGED <<locking, reconciliation, run, coordinator, inputs, dpc, results, collected,
                   session_semaphore, state, pc, alert_numbers, session_id, poll, result,
                   exc, calls>>

\* ------------------------------------------------------------ run supervisor
\* The supervisor of a run: the empty-map return, the configuration check,
\* the capacity probe made once before dispatch, the abort on zero
\* capacity, dispatch_threads with the probed number of slots, and the
\* return of its results.
MAX_ACTIVE_SESSIONS == 5

\* Faulty variant of get_available_session_slots: one slot too many.
get_available_session_slots_OffByOne(active_count) ==
    IF MAX_ACTIVE_SESSIONS + 1 - active_count > 0
    THEN MAX_ACTIVE_SESSIONS + 1 - active_count
    ELSE 0

\* get_available_session_slots, given what get_active_session_count
\* answered: max(0, MAX_ACTIVE_SESSIONS - active_count).
get_available_session_slots(active_count) ==
    IF MAX_ACTIVE_SESSIONS - active_count > 0
    THEN MAX_ACTIVE_SESSIONS - active_count
    ELSE 0

\* Faulty variant of RunStart: the configuration error is reported but
\* the run goes on.
RunStart_NoAbort ==
    /\ run.pc = "start"
    /\ IF batches = {}
       THEN run' = [run EXCEPT !.pc = "returned"]
       ELSE \E config_ok \in BOOLEAN :
               run' = IF config_ok
                      THEN [run EXCEPT !.pc = "probe"]
                      ELSE [run EXCEPT !.pc = "probe", !.message = "configuration error"]
    /\ UNCHANGED <<slack, locking, reconciliation, coordinator, inputs, dashboard, dpc, results, collected, session_semaphore,
                   state, pc, alert_numbers, session_id, poll, result, exc, calls>>

\* The run starts: an empty batch map returns [] at once without a probe;
\* a configuration error (_get_github_token or _get_devin_api_key raising
\* ValueError) is reported and ends the run with [].
RunStart ==
    /\ run.pc = "start"
    /\ IF batches = {}
       THEN run' = [run EXCEPT !.pc = "returned"]
       ELSE \E config_ok \in BOOLEAN :
               run' = IF config_ok
                      THEN [run EXCEPT !.pc = "probe"]
                      ELSE [run EXCEPT !.pc = "aborted", !.message = "configuration error"]
    /\ UNCHANGED <<slack, locking, reconciliation, coordinator, inputs, dashboard, dpc, results, collected, session_semaphore,
                   state, pc, alert_numbers, session_id, poll, result, exc, calls>>

\* The pre-flight capacity probe: with no slot available the run ends with
\* a message and dispatches nothing; otherwise dispatch_threads is called
\* with the number of slots the probe found.  The number of active
\* sessions the probe counts is drawn from the given set.
Probe(Counts) ==
    /\ run.pc = "probe"
    /\ \E active_count \in Counts :
          LET available == get_available_session_slots(active_count)
          IN  IF available = 0
              THEN /\ run' = [pc |-> "aborted", active_count |-> active_count,
                              available |-> available, message |-> "no capacity"]
                   /\ UNCHANGED <<dpc, available_session_slots>>
              ELSE /\ run' = [pc |-> "dispatch", active_count |-> active_count,
                              available |-> available, message |-> "none"]
                   /\ dpc' = "call"
                   /\ available_session_slots' = available
    /\ UNCHANGED <<slack, locking, reconciliation, coordinator, batches, tasks, max_workers, dashboard, results, collected,
                   session_semaphore, state, pc, alert_numbers, session_id, poll, result,
                   exc, calls>>

\* dispatch_threads has returned; the supervisor returns its results.
RunReturn ==
    /\ run.pc = "dispatch"
    /\ dpc = "returned"
    /\ run' = [run EXCEPT !.pc = "returned"]
    /\ UNCHANGED <<slack, locking, reconciliation, coordinator, inputs, dashboard, dpc, results, collected, session_semaphore,
                   state, pc, alert_numbers, session_id, poll, result, exc, calls>>

\* ------------------------------------------- handle_session_outcome, alone
\* handle_session_outcome applied to a result, and applied again to what
\* it returned.  history holds the result given first and the result
\* returned by each application; close_calls and unclaim_calls hold the
\* alert lists passed to close_github_alerts and unclaim_github_alerts, in
\* the order of the calls.
MaxApplications == 2

ApplyOutcome ==
    /\ reconciliation.history # <<>>
    /\ Len(reconciliation.history) <= MaxApplications
    /\ LET r == reconciliation.history[Len(reconciliation.history)]
       IN  \E close_resp \in [CloseTargets(r) -> BOOLEAN],
              unclaim_resp \in [UnclaimTargets(r) -> AttemptResponses] :
              reconciliation' =
                 [history |-> Append(reconciliation.history,
                                     handle_session_outcome(r, close_resp, unclaim_resp)),
                  close_calls |->
                     IF CloseTargets(r) # {}
                     THEN Append(reconciliation.close_calls, CloseTargets(r))
                     ELSE reconciliation.close_calls,
                  unclaim_calls |->
                     IF UnclaimTargets(r) # {}
                     THEN Append(reconciliation.unclaim_calls, UnclaimTargets(r))
                     ELSE reconciliation.unclaim_calls]
    /\ UNCHANGED <<slack, locking, run, coordinator, inputs, dashboard, dpc, results, collected,
                   session_semaphore, state, pc, alert_numbers, session_id, poll, result,
                   exc, calls>>

\* --------------------------------------------------------- specifications
\* Inputs of the concurrent specification: batches of at most one alert, a
\* coarse clock (status fetches take no time, every sleep
\* oversleeps to 900 s, so a loop has at most three iterations) and one
\* representative answer per outcome of the poll loop.
DispatchResponses ==
    {StatusResponse("working", "m1", "none", "none"),
     StatusResponse("working", "m1", "none", "https://pr")}

DispatchTaskSets == {{NoAlert}} \cup {{2 * b - 1} : b \in BatchIds}

\* Any number of batches without a dashboard, or one batch of up to two
\* alerts with one.
Init ==
    \/ InitWith({1..n : n \in 0..NumBatches}, DispatchTaskSets, {1, 2}, {0, 1, 2}, {"none"})
    \/ InitWith({{1}}, {{NoAlert, 1}, {1, 2}}, {1}, {1}, {"enabled"})

Next ==
    \/ Dispatch
    \/ \E b \in BatchIds : Start(b)
    \/ \E b \in BatchIds : Claim(b)
    \/ \E b \in BatchIds : Acquire(b)
    \/ \E b \in BatchIds : Create(b)
    \/ \E b \in BatchIds : Started(b)
    \/ \E b \in BatchIds : Register(b)
    \/ \E b \in BatchIds : Analyzing(b)
    \/ \E b \in BatchIds : PollIterate(b, DispatchResponses, {0}, {750})
    \/ \E b \in BatchIds : Reconcile(b)
    \/ \E b \in BatchIds : AddResult(b)
    \/ \E b \in BatchIds : Completed(b)
    \/ \E b \in BatchIds : SendSleep(b)
    \/ \E b \in BatchIds : Release(b)
    \/ \E b \in BatchIds : Collect(b)
    \/ Return

Spec == Init /\ [][Next]_vars

\* Inputs of the poll specification: one batch of two alerts and no
\* dashboard, run through the whole pipeline under a fine clock (a status
\* fetch takes 0 or 30 s, sleeps are exact) with every status keyword the
\* poll loop tells apart, with and without a pull request, and with
\* changing and unchanging content.
PollResponses ==
    {StatusResponse(st, "m1", "none", "none") :
        st \in {"working", "finished", "completed", "success", "failed", "error",
                "cancelled", "blocked"}}
    \cup {StatusResponse(st, "m1", "none", "https://pr") :
        st \in {"working", "failed", "blocked"}}
    \cup {StatusResponse("working", "m1", "none", ""),
          StatusResponse("working", "", "none", "none"),
          StatusResponse("working", "m2", "none", "none"),
          StatusResponse("working", "m1", "o1", "none"),
          StatusResponse("failed", "", "none", "none")}

InitPoll == InitWith({{1}}, {{1, 2}}, {1}, {1}, {"none"})

NextPoll ==
    \/ Dispatch
    \/ \E b \in BatchIds : Start(b)
    \/ \E b \in BatchIds : Claim(b)
    \/ \E b \in BatchIds : Acquire(b)
    \/ \E b \in BatchIds : Create(b)
    \/ \E b \in BatchIds : Register(b)
    \/ \E b \in BatchIds : PollIterate(b, PollResponses, {0, FETCH_TIMEOUT_SECONDS}, {0})
    \/ \E b \in BatchIds : Reconcile(b)
    \/ \E b \in BatchIds : AddResult(b)
    \/ \E b \in BatchIds : SendSleep(b)
    \/ \E b \in BatchIds : Release(b)
    \/ \E b \in BatchIds : Collect(b)
    \/ Return

SpecPoll == InitPoll /\ [][NextPoll]_vars

\* The poll specification with a worker thread that keeps running: an
\* iteration of the poll loop that can be made is eventually made.
SpecPollFair ==
    /\ InitPoll
    /\ [][NextPoll]_vars
    /\ WF_vars(\E b \in BatchIds :
                  PollIterate(b, PollResponses, {0, FETCH_TIMEOUT_SECONDS}, {0}))

\* Inputs of the fan-in specification: the batch maps of the concurrent
\* specification without a dashboard, two pool threads and one session
\* slot, every sleep lasting 950 s (a loop has at most two iterations),
\* with the fan-in loop scheduled fairly: as_completed yields every future
\* that has finished.
InitFanIn ==
    InitWith({1..n : n \in 0..NumBatches}, DispatchTaskSets, {2}, {1}, {"none"})

NextFanIn ==
    \/ Dispatch
    \/ \E b \in BatchIds : Start(b)
    \/ \E b \in BatchIds : Claim(b)
    \/ \E b \in BatchIds : Acquire(b)
    \/ \E b \in BatchIds : Create(b)
    \/ \E b \in BatchIds : Register(b)
    \/ \E b \in BatchIds : PollIterate(b, DispatchResponses, {0}, {800})
    \/ \E b \in BatchIds : Reconcile(b)
    \/ \E b \in BatchIds : AddResult(b)
    \/ \E b \in BatchIds : SendSleep(b)
    \/ \E b \in BatchIds : Release(b)
    \/ \E b \in BatchIds : Collect(b)
    \/ Return

SpecFanIn ==
    InitFanIn /\ [][NextFanIn]_vars /\ WF_vars(\E b \in BatchIds : Collect(b))

\* Inputs of the coordinator specification: no dispatch; either one
\* instance calling with any of the lists below (empty, one alert, two
\* alerts in either order, one alert twice) and max_retries 1, 2 or the
\* default, against alerts that are unassigned, assigned to a person or
\* already assigned to the bot; or several instances that were all handed
\* alert 1 while it was unassigned.
ClaimLists == {<<>>, <<1>>, <<1, 2>>, <<2, 1>>, <<1, 1>>}

MaxRetriesValues == 1..CLAIM_RETRY_ATTEMPTS

IdleCall(list, max_retries) ==
    [AbsentCall EXCEPT !.op = "idle", !.alert_numbers = list,
                       !.max_retries = max_retries]

InitCoordinator ==
    /\ PipelineWith({{}}, {{NoAlert}}, {1}, {1}, {"none"})
    /\ \/ /\ assignees \in [TrackedAlerts -> {{}, {"human"}, {bot_username}}]
          /\ \E list \in ClaimLists, max_retries \in MaxRetriesValues :
                coord = [i \in Instances |->
                           IF i = 1 THEN IdleCall(list, max_retries) ELSE AbsentCall]
       \/ /\ assignees = [a \in TrackedAlerts |-> {}]
          /\ coord \in [Instances -> {IdleCall(<<1>>, CLAIM_RETRY_ATTEMPTS), AbsentCall}]
          /\ coord[1] # AbsentCall

NextCoordinator ==
    \/ \E i \in Instances, op \in {"claim", "unclaim"} : Call(i, op)
    \/ \E i \in Instances : Patch(i)
    \/ \E i \in Instances : ReturnCall(i)

SpecCoordinator == InitCoordinator /\ [][NextCoordinator]_vars

\* Inputs of the close specification: no dispatch; one instance calling
\* close_github_alerts with any of the lists of the coordinator
\* specification, against alerts that are unassigned, assigned to a
\* person or assigned to the bot.
InitClose ==
    /\ PipelineWith({{}}, {{NoAlert}}, {1}, {1}, {"none"})
    /\ assignees \in [TrackedAlerts -> {{}, {"human"}, {bot_username}}]
    /\ \E list \in ClaimLists :
          coord = [i \in Instances |->
                     IF i = 1 THEN IdleCall(list, CLAIM_RETRY_ATTEMPTS) ELSE AbsentCall]

NextClose ==
    \/ \E i \in Instances : CloseCall(i)
    \/ \E i \in Instances : ClosePatch(i)
    \/ \E i \in Instances : CloseReturn(i)

SpecClose == InitClose /\ [][NextClose]_vars

\* Inputs of the shared state specification: no dispatch; every worker
\* thread calls each method of OrchestratorState once, in any order and
\* interleaved in any way with the other threads.
InitState ==
    /\ PipelineIdle({{}}, {{NoAlert}}, {1}, {1}, {"none"})
    /\ dpc = "idle"
    /\ run = NoRun
    /\ reconciliation = NoOutcome
    /\ CoordinatorAbsent
    /\ locking = [owner |-> 0,
                  threads |-> [t \in BatchIds |-> [IdleThread EXCEPT !.todo = StateMethods]]]
    /\ slack = NoSlack

NextState ==
    \/ \E t \in BatchIds : CallMethod(t)
    \/ \E t \in BatchIds : LockAcquire(t)
    \/ \E t \in BatchIds : StoreAlerts(t)
    \/ \E t \in BatchIds : StoreBatch(t)
    \/ \E t \in BatchIds : AppendResult(t)
    \/ \E t \in BatchIds : GetAlerts(t)
    \/ \E t \in BatchIds : LockRelease(t)

SpecState == InitState /\ [][NextState]_vars

\* Inputs of the dashboard specification: no dispatch; one dashboard,
\* enabled or not after its construction, and every worker thread making
\* the update calls of one process_batch, interleaved in any way.
InitDashboard ==
    /\ PipelineIdle({{}}, {{NoAlert}}, {1}, {1}, {"enabled", "disabled"})
    /\ dpc = "idle"
    /\ run = NoRun
    /\ reconciliation = NoOutcome
    /\ CoordinatorAbsent
    /\ locking = NoLocking
    /\ slack = [NoSlack EXCEPT
                  !.threads = [t \in BatchIds |-> [at |-> "idle", left |-> UpdatesPerBatch]]]

NextDashboard ==
    \/ \E t \in BatchIds : UpdateCheck(t)
    \/ \E t \in BatchIds : UpdateEnter(t)
    \/ \E t \in BatchIds : Transmit(t)
    \/ \E t \in BatchIds : UpdateLeave(t)

SpecDashboard == InitDashboard /\ [][NextDashboard]_vars

\* Inputs of the supervised run: any number of one-alert batches, two
\* workers, no dashboard, the coarse clock, and an account that is idle,
\* one session short of full, full, or over its limit when probed.
ActiveCounts ==
    {0, MAX_ACTIVE_SESSIONS - 1, MAX_ACTIVE_SESSIONS, MAX_ACTIVE_SESSIONS + 1}

InitRun ==
    /\ PipelineIdle({1..n : n \in 0..NumBatches}, DispatchTaskSets, {2},
                    {MAX_ACTIVE_SESSIONS}, {"none"})
    /\ dpc = "idle"
    /\ run = [pc |-> "start", active_count |-> 0, available |-> -1, message |-> "none"]
    /\ CoordinatorAbsent
    /\ locking = NoLocking
    /\ slack = NoSlack
    /\ reconciliation = NoOutcome

NextRun ==
    \/ RunStart
    \/ Probe(ActiveCounts)
    \/ Dispatch
    \/ \E b \in BatchIds : Start(b)
    \/ \E b \in BatchIds : Claim(b)
    \/ \E b \in BatchIds : Acquire(b)
    \/ \E b \in BatchIds : Create(b)
    \/ \E b \in BatchIds : Register(b)
    \/ \E b \in BatchIds : PollIterate(b, DispatchResponses, {0}, {800})
    \/ \E b \in BatchIds : Reconcile(b)
    \/ \E b \in BatchIds : AddResult(b)
    \/ \E b \in BatchIds : SendSleep(b)
    \/ \E b \in BatchIds : Release(b)
    \/ \E b \in BatchIds : Collect(b)
    \/ Return
    \/ RunReturn

SpecRun == InitRun /\ [][NextRun]_vars

\* Inputs of handle_session_outcome on its own: a result of every status
\* the function tells apart and one it does not, as poll_session_status or
\* a caller would hand it over (with the batch's alert numbers, which may
\* be none), fixed_alerts filled in by the caller or left empty, and
\* unfixed_alerts still empty.
OutcomeInputs ==
    {[SessionResult(st, 1, 1, nums, "none", "none") EXCEPT !.fixed_alerts = fixed] :
        st \in SessionStatus,
        nums \in SUBSET AlertIds(1),
        fixed \in SUBSET AlertIds(1)}

InitOutcome ==
    /\ PipelineIdle({{}}, {{NoAlert}}, {1}, {1}, {"none"})
    /\ dpc = "idle"
    /\ run = NoRun
    /\ CoordinatorAbsent
    /\ locking = NoLocking
    /\ slack = NoSlack
    /\ \E r \in OutcomeInputs :
          reconciliation = [history |-> <<r>>, close_calls |-> <<>>, unclaim_calls |-> <<>>]

NextOutcome == ApplyOutcome

SpecOutcome == InitOutcome /\ [][NextOutcome]_vars

\* ------------------------------------------------------------- properties
\* Batches whose worker holds a session slot: it has acquired the
\* semaphore and not released it.
Holding(b) == calls[b].acquire > calls[b].release

Holders == {b \in BatchIds : Holding(b)}

\* C1: at every moment the number of workers holding a session slot is at
\* most available_session_slots, and a worker that is at (or inside)
\* create_devin_session or poll_session_status holds a slot.
C1_SlotHoldersBounded ==
    /\ dpc # "call" => Cardinality(Holders) <= available_session_slots
    /\ \A b \in BatchIds :
          pc[b] \in {"create", "started", "register", "analyzing", "poll"} => Holding(b)
    /\ \A b \in BatchIds :
          (calls[b].create > 0 \/ poll[b].fetches > 0) => calls[b].acquire > 0

\* One worker is polling its session while another, its alerts claimed,
\* waits for the only slot.
C1_Witness ==
    \E b, c \in BatchIds :
       /\ b # c
       /\ available_session_slots = 1
       /\ pc[b] = "poll" /\ poll[b].fetches > 0
       /\ pc[c] = "acquire"
       /\ session_semaphore = 0

\* C2: every acquired session slot is released exactly once on every exit
\* path of process_batch, so that when dispatch_threads returns the free
\* count of the semaphore equals available_session_slots.
C2_SlotsReleasedOnEveryExit ==
    /\ \A b \in BatchIds : pc[b] = "done" => calls[b].release = calls[b].acquire
    /\ (dpc = "returned" /\ batches # {}) => session_semaphore = available_session_slots

\* C3: an exception that leaves a worker's process_batch is turned at
\* fan-in into a FAILURE result for that worker's batch id whose
\* error_message is the exception text; it does not end the fan-in loop:
\* every finished worker is eventually collected, and when dispatch_threads
\* returns every batch has been collected and the results the other
\* workers returned are in the list.
C3_WorkerExceptionBecomesFailure ==
    /\ [](\A b \in collected :
            FutureRaises(b) =>
               CopiesIn(SessionResult(FAILURE, 0, b, {}, "none", exc[b]), results) = 1)
    /\ [](dpc = "returned" =>
            /\ collected = batches
            /\ \A c \in batches : ~FutureRaises(c) => CopiesIn(result[c], results) = 1)
    /\ \A b \in BatchIds : (pc[b] = "done") ~> (b \in collected)

\* dispatch_threads has returned; one worker raised, another returned
\* SUCCESS.
C3_Witness ==
    /\ dpc = "returned"
    /\ \E b, c \in batches :
          /\ FutureRaises(b)
          /\ ~FutureRaises(c)
          /\ result[c].status = SUCCESS
          /\ BagIn(result[c], results)

\* The results of the returned list that carry batch id b.
ResultsOf(b) == {r \in BagToSet(results) : r.batch_id = b}

\* C4: the list dispatch_threads returns holds exactly one SessionResult
\* per batch id of the batch map, also when every batch fails.
C4_OneResultPerBatch ==
    dpc = "returned" =>
       /\ BagCardinality(results) = Cardinality(batches)
       /\ \A b \in batches :
             /\ Cardinality(ResultsOf(b)) = 1
             /\ \A r \in ResultsOf(b) : CopiesIn(r, results) = 1

\* dispatch_threads has returned for a full batch map in which every batch
\* failed, one of them by an exception.
C4_Witness ==
    /\ dpc = "returned"
    /\ batches = BatchIds
    /\ \A r \in BagToSet(results) : r.status = FAILURE
    /\ \E b \in batches : FutureRaises(b)
    /\ \E b \in batches : ~FutureRaises(b)

TerminalStatuses == {SUCCESS, FAILURE, STUCK, TIMEOUT}

\* C5: a poll_session_status call that returns yields exactly one status,
\* one of SUCCESS, FAILURE, STUCK, TIMEOUT, and no status fetch is made
\* once that status has been decided (a TIMEOUT is decided without the
\* fetch of its iteration).
C5_OneTerminalStatus ==
    /\ [](\A b \in BatchIds :
            /\ Len(poll[b].returned) <= 1
            /\ pc[b] = "poll" => poll[b].returned = <<>>
            /\ pc[b] = "reconcile" =>
                  /\ Len(poll[b].returned) = 1
                  /\ poll[b].returned[1] \in TerminalStatuses
                  /\ result[b].status = poll[b].returned[1]
                  /\ result[b].status = TIMEOUT => ~poll[b].iter.fetched)
    /\ [][\A b \in BatchIds :
            poll'[b].fetches > poll[b].fetches =>
               /\ poll[b].returned = <<>>
               /\ poll'[b].fetches = poll[b].fetches + 1]_vars

\* A poll that fetched the status several times has returned SUCCESS.
C5_Witness ==
    \E b \in BatchIds :
       /\ pc[b] = "reconcile"
       /\ poll[b].fetches >= 3
       /\ poll[b].returned = <<SUCCESS>>

\* C6: the timeout is checked before stagnation: an iteration that starts
\* with elapsed > SESSION_TIMEOUT_SECONDS returns TIMEOUT without fetching
\* the status, whatever the idle time and whatever the session would
\* report; STUCK is only returned within the timeout.
C6_TimeoutBeforeStagnation ==
    \A b \in BatchIds :
       /\ poll[b].iter.elapsed > SESSION_TIMEOUT_SECONDS =>
             /\ pc[b] = "reconcile"
             /\ result[b].status = TIMEOUT
             /\ ~poll[b].iter.fetched
       /\ (pc[b] = "reconcile" /\ result[b].status = STUCK) =>
             poll[b].iter.elapsed <= SESSION_TIMEOUT_SECONDS

\* An iteration past the timeout and idle past the stagnation threshold,
\* for a session that would report a pull request and a terminal status,
\* returned TIMEOUT.
C6_Witness ==
    \E b \in BatchIds :
       /\ pc[b] = "reconcile"
       /\ poll[b].iter.elapsed > SESSION_TIMEOUT_SECONDS
       /\ poll[b].iter.idle > STAGNATION_THRESHOLD_SECONDS
       /\ poll[b].iter.resp \in PollResponses
       /\ poll[b].iter.resp.pull_request = "https://pr"
       /\ poll[b].iter.resp.status = "failed"
       /\ result[b].status = TIMEOUT

\* The last iteration of the poll of batch b fetched a status answer and
\* was neither timed out nor stagnated.
LiveIteration(b) ==
    /\ poll[b].iter.fetched
    /\ poll[b].iter.resp \in PollResponses
    /\ poll[b].iter.elapsed <= SESSION_TIMEOUT_SECONDS
    /\ poll[b].ps.now - poll[b].ps.last_activity_time <= STAGNATION_THRESHOLD_SECONDS

\* C7: an iteration that is neither timed out nor stagnated and whose
\* answer carries a non-empty pull request URL returns SUCCESS with that
\* URL as pr_url, whatever the status text.
C7_PullRequestMeansSuccess ==
    \A b \in BatchIds :
       (/\ pc[b] = "reconcile"
        /\ LiveIteration(b)
        /\ Truthy(poll[b].iter.resp.pull_request)) =>
          /\ result[b].status = SUCCESS
          /\ result[b].pr_url = poll[b].iter.resp.pull_request

\* A session answering status "failed" together with a pull request was
\* classified SUCCESS.
C7_Witness ==
    \E b \in BatchIds :
       /\ pc[b] = "reconcile"
       /\ LiveIteration(b)
       /\ poll[b].iter.resp.status = "failed"
       /\ poll[b].iter.resp.pull_request = "https://pr"
       /\ result[b].status = SUCCESS
       /\ result[b].pr_url = "https://pr"

\* The last iteration of the poll of batch b fetched a status answer within
\* the timeout and found the session idle past the stagnation threshold.
StagnatedIteration(b) ==
    /\ poll[b].iter.fetched
    /\ poll[b].iter.resp \in PollResponses
    /\ poll[b].iter.elapsed <= SESSION_TIMEOUT_SECONDS
    /\ poll[b].ps.now - poll[b].ps.last_activity_time > STAGNATION_THRESHOLD_SECONDS

\* The step of process_batch(b) in which handle_session_outcome runs to
\* its end.
Reconciled(b) == pc[b] = "reconcile" /\ pc'[b] = "add_result"

\* C8: an iteration within the timeout that finds the session idle for more
\* than STAGNATION_THRESHOLD_SECONDS returns STUCK, and the reconciliation
\* of a STUCK result asks to unclaim every alert assigned to the session
\* and closes none.
C8_StagnationMeansStuck ==
    /\ [](\A b \in BatchIds :
            (pc[b] = "reconcile" /\ StagnatedIteration(b)) => result[b].status = STUCK)
    /\ [][\A b \in BatchIds :
            (Reconciled(b) /\ result[b].status = STUCK) =>
               /\ calls'[b].unclaim = alert_numbers[b]
               /\ calls'[b].close = {}
               /\ result'[b].status = STUCK]_vars

\* A STUCK session has been reconciled: both of its alerts were asked to
\* be unclaimed, none to be closed.
C8_Witness ==
    \E b \in BatchIds :
       /\ pc[b] = "add_result"
       /\ result[b].status = STUCK
       /\ alert_numbers[b] = AlertIds(b)
       /\ calls[b].unclaim = AlertIds(b)
       /\ calls[b].close = {}

\* C9: reconciling a SUCCESS result with alerts asks to close every
\* assigned alert and to unclaim none; fixed_alerts is the set whose close
\* succeeded, unfixed_alerts the set whose close failed, and the status
\* stays SUCCESS.
C9_SuccessClosesAlerts ==
    [][\A b \in BatchIds :
         (Reconciled(b) /\ result[b].status = SUCCESS /\ alert_numbers[b] # {}) =>
            /\ calls'[b].close = alert_numbers[b]
            /\ calls'[b].unclaim = {}
            /\ result'[b].fixed_alerts = calls'[b].closed
            /\ result'[b].unfixed_alerts = alert_numbers[b] \ calls'[b].closed
            /\ result'[b].alert_numbers = alert_numbers[b]
            /\ result'[b].status = SUCCESS]_vars

\* A SUCCESS session with two alerts has been reconciled; one close
\* succeeded and one failed.
C9_Witness ==
    \E b \in BatchIds :
       /\ pc[b] = "add_result"
       /\ result[b].status = SUCCESS
       /\ calls[b].close = AlertIds(b)
       /\ Cardinality(result[b].fixed_alerts) = 1
       /\ Cardinality(result[b].unfixed_alerts) = 1
       /\ result[b].fixed_alerts \cup result[b].unfixed_alerts = AlertIds(b)

\* C10: reconciling a FAILURE, STUCK or TIMEOUT result with alerts asks to
\* unclaim every assigned alert and to close none; fixed_alerts stays
\* empty and unfixed_alerts is every assigned alert, whether or not the
\* unclaims succeed.
C10_FailureUnclaimsAlerts ==
    [][\A b \in BatchIds :
         (/\ Reconciled(b)
          /\ result[b].status \in {FAILURE, STUCK, TIMEOUT}
          /\ alert_numbers[b] # {}) =>
            /\ calls'[b].unclaim = alert_numbers[b]
            /\ calls'[b].close = {}
            /\ result'[b].fixed_alerts = {}
            /\ result'[b].unfixed_alerts = alert_numbers[b]
            /\ result'[b].status = result[b].status]_vars

\* A TIMEOUT session with two alerts has been reconciled; one unclaim
\* succeeded, the other failed on all its attempts, and both alerts are
\* reported unfixed.
C10_Witness ==
    \E b \in BatchIds :
       /\ pc[b] = "add_result"
       /\ result[b].status = TIMEOUT
       /\ calls[b].unclaim = AlertIds(b)
       /\ Cardinality(calls[b].unclaimed) = 1
       /\ result[b].fixed_alerts = {}
       /\ result[b].unfixed_alerts = AlertIds(b)

\* C11: when dispatch_threads has returned, every alert claimed by a batch
\* whose returned result is FAILURE has had an unclaim issued for it (or,
\* failing that, a close): no FAILURE path leaves an alert claimed without
\* either having been attempted.
C11_FailureUnclaimsClaimed ==
    dpc = "returned" =>
       \A r \in BagToSet(results) :
          r.status = FAILURE =>
             calls[r.batch_id].claimed \subseteq
                calls[r.batch_id].unclaim \cup calls[r.batch_id].close

\* Instance i was answered True for alert a by its claim_github_alerts call
\* and has not started to unclaim.
ClaimedBy(i, a) ==
    /\ coord[i].op = "claim"
    /\ coord[i].returned
    /\ a \in DOMAIN coord[i].results
    /\ coord[i].results[a]

\* C12: of the instances that run at the same time and ask for the same
\* alert, at most one is answered True by claim_github_alerts.
C12_AtMostOneClaimant ==
    \A a \in TrackedAlerts :
       Cardinality({i \in Instances : ClaimedBy(i, a)}) <= 1

\* The instances that are inside a claim_github_alerts or
\* unclaim_github_alerts call, or have returned from it.
Calling == {i \in Instances : coord[i].op \in {"claim", "unclaim"}}

\* The answers to the requests made so far by instance i's call for
\* position p of its list: all failed; or failed up to a final 200.
AllFailed(i, p) == \A k \in 1..Len(coord[i].answers[p]) : ~coord[i].answers[p][k]

EndedBy200(i, p) ==
    LET ans == coord[i].answers[p]
    IN  /\ Len(ans) >= 1
        /\ ans[Len(ans)]
        /\ \A k \in 1..(Len(ans) - 1) : ~ans[k]

\* The alert at position p of instance i's list does not occur after p.
LastOccurrence(i, p) ==
    \A q \in (p + 1)..Len(coord[i].alert_numbers) :
       coord[i].alert_numbers[q] # coord[i].alert_numbers[p]

\* C13: for every alert a claim or unclaim call has dealt with, False is
\* reported only after exactly max_retries requests that all failed; True
\* is reported after a request answered 200 that was the last request made
\* for it (success on attempt k costs k requests, k <= max_retries); and
\* while an alert is being retried all its requests so far have failed and
\* are fewer than max_retries.
C13_RetryBudget ==
    \A i \in Calling :
       LET c == coord[i]
       IN  /\ Len(c.answers) <= c.idx
           /\ Len(c.answers) >= c.idx - 1
           /\ \A p \in 1..Len(c.answers) :
                 IF p = c.idx
                 THEN AllFailed(i, p) /\ Len(c.answers[p]) = c.attempt
                      /\ c.attempt < c.max_retries
                 ELSE /\ \/ AllFailed(i, p) /\ Len(c.answers[p]) = c.max_retries
                         \/ EndedBy200(i, p) /\ Len(c.answers[p]) <= c.max_retries
                      /\ (c.returned /\ LastOccurrence(i, p)) =>
                            c.results[c.alert_numbers[p]] = EndedBy200(i, p)

\* An unclaim call with the default max_retries has returned: alert 1 was
\* reported False after three failed requests, alert 2 True after one
\* failed request and a 200.
C13_Witness ==
    \E i \in Instances :
       /\ coord[i].op = "unclaim"
       /\ coord[i].returned
       /\ coord[i].max_retries = CLAIM_RETRY_ATTEMPTS
       /\ coord[i].alert_numbers = <<1, 2>>
       /\ coord[i].answers = <<<<FALSE, FALSE, FALSE>>, <<FALSE, TRUE>>>>
       /\ coord[i].results[1] = FALSE
       /\ coord[i].results[2] = TRUE

\* The elements of a list.
Range(list) == {list[k] : k \in 1..Len(list)}

ClaimThenUnclaim(i) ==
    /\ coord[i].op = "unclaim"
    /\ coord[i].returned
    /\ coord[i].claimed
    /\ FullySuccessful(coord[i])
    /\ \A j \in Instances \ {i} : coord[j].op = "absent"

\* C15 as stated: a fully successful claim followed immediately by a fully
\* successful unclaim on the same ids leaves the assignees of every listed
\* alert as they were before the claim, whatever they were.
C15_ClaimUnclaimRestores ==
    \A i \in Instances :
       ClaimThenUnclaim(i) =>
          \A a \in Range(coord[i].alert_numbers) : assignees[a] = coord[i].pre[a]

\* C15 as amended: the pair leaves every listed alert without assignees,
\* which is its state before the claim exactly when it was unassigned then;
\* the alerts that are not in the list keep their assignees.
C15_ClaimUnclaimClears ==
    \A i \in Instances :
       ClaimThenUnclaim(i) =>
          \A a \in TrackedAlerts :
             IF a \in Range(coord[i].alert_numbers)
             THEN /\ assignees[a] = {}
                  /\ (assignees[a] = coord[i].pre[a]) <=> (coord[i].pre[a] = {})
             ELSE assignees[a] = coord[i].pre[a]

\* Alert 1 was unassigned and alert 2 assigned to a person; both were
\* claimed and then unclaimed successfully, and neither has an assignee.
C15_Witness ==
    \E i \in Instances :
       /\ ClaimThenUnclaim(i)
       /\ coord[i].alert_numbers = <<1, 2>>
       /\ coord[i].pre[1] = {}
       /\ coord[i].pre[2] = {"human"}
       /\ assignees[1] = {}
       /\ assignees[2] = {}

\* The claim call of batch b was made and came back without one alert
\* claimed.
ClaimFailedForAll(b) == calls[b].claim # {} /\ calls[b].claimed = {}

\* C16: when the claim fails for every alert of a batch, the batch ends at
\* once with a FAILURE result that lists all its alerts and whose
\* error_message begins 'Failed to claim alerts'; no session slot is
\* acquired, no session created, nothing registered or added in the shared
\* state, and no sleep message sent.
C16_AllClaimsFailed ==
    \A b \in BatchIds :
       ClaimFailedForAll(b) =>
          /\ pc[b] = "done"
          /\ exc[b] = NoException
          /\ result[b].status = FAILURE
          /\ result[b].session_id = 0
          /\ result[b].batch_id = b
          /\ result[b].alert_numbers = tasks[b] \ {NoAlert}
          /\ result[b].alert_numbers = calls[b].claim
          /\ result[b].error_message = "Failed to claim alerts"
          /\ calls[b].acquire = 0
          /\ calls[b].create = 0
          /\ calls[b].prompt = {}
          /\ calls[b].sleep = 0
          /\ calls[b].release = 0
          /\ calls[b].close = {}
          /\ calls[b].unclaim = {}
          /\ session_id[b] = 0
          /\ \A sid \in DOMAIN state.session_to_batch : state.session_to_batch[sid] # b
          /\ \A r \in BagToSet(state.results) : r.batch_id # b
          /\ (b \in collected => result[b] \in BagToSet(results))

\* A batch of two alerts had both claims refused; dispatch_threads has
\* returned its FAILURE result and the semaphore is untouched.
C16_Witness ==
    /\ dpc = "returned"
    /\ ClaimFailedForAll(1)
    /\ calls[1].claim = {1, 2}
    /\ session_semaphore = available_session_slots
    /\ \E r \in BagToSet(results) :
          r.status = FAILURE /\ r.alert_numbers = {1, 2}

\* The claim call of batch b succeeded for some alerts of the batch and
\* failed for others.
PartiallyClaimed(b) == calls[b].claimed # {} /\ calls[b].claimed # calls[b].claim

\* process_batch(b) holds the result it returns, after reconciliation if a
\* session was polled.
HoldsReturnValue(b) ==
    /\ pc[b] \in {"add_result", "completed", "sleep", "release", "done"}
    /\ result[b] # NoResult

\* C17: after a partial claim the alerts carried forward are exactly the
\* claimed ones: the local alert_numbers, the alerts registered for the
\* session in the shared state, the alert_numbers of the returned and of
\* the stored SessionResult, and the alerts a close or an unclaim is
\* requested for; no close or unclaim is requested for an alert whose
\* claim failed.
C17_CarriesClaimedSubset ==
    \A b \in BatchIds :
       PartiallyClaimed(b) =>
          /\ alert_numbers[b] = calls[b].claimed
          /\ \A sid \in DOMAIN state.session_to_batch :
                state.session_to_batch[sid] = b =>
                   state.session_to_alerts[sid] = calls[b].claimed
          /\ HoldsReturnValue(b) => result[b].alert_numbers = calls[b].claimed
          /\ \A r \in BagToSet(state.results) :
                r.batch_id = b =>
                   /\ r.alert_numbers = calls[b].claimed
                   /\ r.fixed_alerts \cup r.unfixed_alerts = calls[b].claimed
          /\ (calls[b].close \cup calls[b].unclaim) \cap (calls[b].claim \ calls[b].claimed) = {}
          /\ (pc[b] = "add_result"
                /\ result[b].status \in {SUCCESS, FAILURE, STUCK, TIMEOUT}) =>
                   calls[b].close \cup calls[b].unclaim = calls[b].claimed

\* Of the two alerts of a batch only alert 1 was claimed; its session was
\* registered with alert 1 alone, it succeeded, and the close was requested
\* for alert 1 alone.
C17_Witness ==
    /\ calls[1].claim = {1, 2}
    /\ calls[1].claimed = {1}
    /\ pc[1] = "done"
    /\ session_id[1] \in DOMAIN state.session_to_alerts
    /\ state.session_to_alerts[session_id[1]] = {1}
    /\ result[1].status = SUCCESS
    /\ result[1].alert_numbers = {1}
    /\ calls[1].close = {1}
    /\ calls[1].unclaim = {}

\* C18: after a partial claim the prompt handed to create_devin_session
\* lists no alert whose claim failed, and the result process_batch returns
\* names the alerts left unclaimed.
C18_PromptListsClaimedOnly ==
    \A b \in BatchIds :
       PartiallyClaimed(b) =>
          /\ calls[b].prompt \cap (calls[b].claim \ calls[b].claimed) = {}
          /\ (HoldsReturnValue(b) /\ pc[b] = "done") =>
                (calls[b].claim \ calls[b].claimed) \subseteq
                   result[b].alert_numbers \cup result[b].unfixed_alerts

\* C19: dispatch_threads called with an empty batch map returns the empty
\* list at once: no semaphore is created, no OrchestratorState filled, no
\* worker started, and no claim, session creation, status fetch or any
\* other outward call made.
C19_EmptyMapReturnsEmpty ==
    batches = {} =>
       /\ dpc \in {"call", "returned"}
       /\ results = EmptyBag
       /\ collected = {}
       /\ session_semaphore = -1
       /\ state.session_to_batch = <<>> /\ state.results = EmptyBag
       /\ \A b \in BatchIds :
             /\ pc[b] = "absent"
             /\ calls[b] = NoCalls
             /\ poll[b].fetches = 0
             /\ session_id[b] = 0

\* dispatch_threads has returned [] for the empty map.
C19_Witness ==
    /\ batches = {}
    /\ dpc = "returned"
    /\ results = EmptyBag
    /\ session_semaphore = -1

\* The capacity probe of the run found every session slot of the account
\* taken.
ProbedZeroCapacity == run.available # -1 /\ run.active_count >= MAX_ACTIVE_SESSIONS

SleepCalls(b) ==
    calls[b].sleep + (IF exc[b] = "send_sleep_message raised" THEN 1 ELSE 0)

C22_WitnessAbsorbed ==
    /\ run.pc = "returned"
    /\ batches = {1, 2}
    /\ exc[1] = "claim_github_alerts raised"
    /\ session_id[2] # 0
    /\ \E r \in BagToSet(results) : r.batch_id = 1 /\ r.status = FAILURE

\* The result handle_session_outcome returned from its first application
\* is a reconciled SUCCESS: every assigned alert closed, none left.
ReconciledSuccess ==
    /\ Len(reconciliation.history) >= 2
    /\ reconciliation.history[2].status = SUCCESS
    /\ reconciliation.history[2].alert_numbers # {}
    /\ reconciliation.history[2].fixed_alerts = reconciliation.history[2].alert_numbers
    /\ reconciliation.history[2].unfixed_alerts = {}

\* C23: handle_session_outcome applied a second time to a reconciled
\* SUCCESS result makes no further close or unclaim call and returns the
\* same result.
C23_SecondReconciliationIdle ==
    (ReconciledSuccess /\ Len(reconciliation.history) >= 3) =>
       /\ Len(reconciliation.close_calls) = 1
       /\ reconciliation.unclaim_calls = <<>>
       /\ reconciliation.history[3] = reconciliation.history[2]

\* handle_session_outcome has been applied once, to a PARTIAL result with
\* assigned alerts.
PartialReconciled ==
    /\ Len(reconciliation.history) = 2
    /\ reconciliation.history[1].status = PARTIAL
    /\ reconciliation.history[1].alert_numbers # {}

AfterUpdate(at) ==
    CASE at = "started" -> "register"
      [] at = "analyzing" -> "poll"
      [] at = "completed" -> "sleep"

\* C24: the dashboard does not alter what the orchestrator does: every
\* dashboard.update step of a worker, with the dashboard enabled, disabled
\* or failing, leaves the calls made, the results, the pending result and
\* exception, the shared state and the semaphore as they are and goes on
\* at the program point a run without dashboard goes to, so that the runs
\* with and without dashboard differ by stuttering steps only.
C24_DashboardIsTransparent ==
    [][\A b \in BatchIds :
         (pc[b] \in {"started", "analyzing", "completed"} /\ pc'[b] # pc[b]) =>
            /\ pc'[b] = AfterUpdate(pc[b])
            /\ UNCHANGED <<calls, result, exc, results, collected, state,
                           session_semaphore, session_id, alert_numbers>>]_vars

\* The batches whose worker holds a session slot and is on its way to the
\* release at the end of process_batch.
SlotHolders ==
    {b \in BatchIds : pc[b] \in {"create", "started", "register", "analyzing", "poll",
                                 "reconcile", "add_result", "completed", "sleep",
                                 "release"}}

\* C25: with at least one session slot and one worker, no state is reached
\* in which a worker waits for a session slot that nobody will release:
\* whenever a worker waits at acquire, a slot is free or some worker holds
\* one and is on its way to releasing it, so that dispatch_threads goes on
\* to return.
C25_NoWorkerWaitsForEver ==
    (available_session_slots >= 1 /\ max_workers >= 1) =>
       \A b \in BatchIds :
          pc[b] = "acquire" => (session_semaphore > 0 \/ SlotHolders # {})

\* C26: poll_session_status always ends, whatever the fetches answer: a
\* running loop is eventually left, with a terminal result or, when the
\* fetch itself raised, with that exception; no iteration starts later
\* than one fetch and one sleep after the timeout bound, so a loop that
\* nothing else ends is ended by TIMEOUT.
C26_PollLoopEnds ==
    /\ \A b \in BatchIds : (pc[b] = "poll") ~> (pc[b] # "poll")
    /\ [](\A b \in BatchIds :
            /\ pc[b] = "poll" =>
                  poll[b].ps.now <= SESSION_TIMEOUT_SECONDS + FETCH_TIMEOUT_SECONDS
                                      + POLL_INTERVAL_SECONDS
            /\ pc[b] = "reconcile" =>
                  result[b].status \in {SUCCESS, FAILURE, STUCK, TIMEOUT})

\* Every status fetch of a session failed: the loop never saw any content
\* and returned TIMEOUT at its first iteration past the bound.
C26_Witness ==
    \E b \in BatchIds :
       /\ pc[b] = "reconcile"
       /\ result[b].status = TIMEOUT
       /\ poll[b].fetches >= 6
       /\ poll[b].ps.last_activity_time = 0
       /\ poll[b].ps.last_status_message = ""
       /\ poll[b].ps.now > SESSION_TIMEOUT_SECONDS

\* The step is an iteration of the poll loop of batch b whose status fetch
\* returned no data.
FailedFetchIteration(b) ==
    /\ pc[b] = "poll"
    /\ poll'[b].fetches = poll[b].fetches + 1
    /\ poll'[b].iter.resp = NoData

\* C27: an iteration whose status fetch fails leaves last_activity_time,
\* last_status_message and last_structured_output as they were, returns
\* nothing (the loop sleeps one poll interval and goes on), and was not
\* made at all if the timeout check before the fetch had fired; so a
\* failed fetch never yields STUCK, SUCCESS or FAILURE, however long the
\* session has been idle.
C27_FailedFetchChangesNothing ==
    [][\A b \in BatchIds :
         FailedFetchIteration(b) =>
            /\ poll[b].ps.now <= SESSION_TIMEOUT_SECONDS
            /\ pc'[b] = "poll"
            /\ result'[b] = result[b]
            /\ exc'[b] = exc[b]
            /\ poll'[b].returned = poll[b].returned
            /\ poll'[b].ps.last_activity_time = poll[b].ps.last_activity_time
            /\ poll'[b].ps.last_status_message = poll[b].ps.last_status_message
            /\ poll'[b].ps.last_structured_output = poll[b].ps.last_structured_output
            /\ poll'[b].ps.now >= poll[b].ps.now + POLL_INTERVAL_SECONDS]_vars

\* A session that last showed content at its first fetch has had failing
\* fetches since and has been idle past the stagnation threshold; the loop
\* is still running and remembers that content.
C27_Witness ==
    \E b \in BatchIds :
       /\ pc[b] = "poll"
       /\ poll[b].iter.fetched
       /\ poll[b].iter.resp = NoData
       /\ poll[b].iter.idle > STAGNATION_THRESHOLD_SECONDS
       /\ poll[b].ps.last_status_message = "m1"
       /\ poll[b].ps.last_activity_time = 0

\* The step is an iteration of the poll loop of batch b whose status fetch
\* returned an answer.
AnsweredIteration(b) ==
    /\ pc[b] = "poll"
    /\ poll'[b].fetches = poll[b].fetches + 1
    /\ poll'[b].iter.resp \in PollResponses

\* The clock when the fetch of the iteration just made had returned: the
\* clock now, less the sleep if the loop went on.
FetchedAt(b) ==
    IF pc'[b] = "poll" THEN poll'[b].ps.now - POLL_INTERVAL_SECONDS ELSE poll'[b].ps.now

\* C28: progress is detected by content: an answered fetch sets
\* last_activity_time to the current time exactly when its status message
\* or structured output differs from the remembered one, and then
\* remembers the new content; an answer with the remembered content leaves
\* last_activity_time alone, and once such answers have gone on for longer
\* than STAGNATION_THRESHOLD_SECONDS the iteration returns STUCK.
C28_ContentBasedProgress ==
    [][\A b \in BatchIds :
         AnsweredIteration(b) =>
            LET resp == poll'[b].iter.resp
                differs == \/ resp.status_message # poll[b].ps.last_status_message
                           \/ resp.structured_output # poll[b].ps.last_structured_output
            IN  /\ poll'[b].ps.last_status_message = resp.status_message
                /\ poll'[b].ps.last_structured_output = resp.structured_output
                /\ IF differs
                   THEN /\ poll'[b].ps.last_activity_time = FetchedAt(b)
                        /\ ~(pc'[b] = "reconcile" /\ result'[b].status = STUCK)
                   ELSE /\ poll'[b].ps.last_activity_time = poll[b].ps.last_activity_time
                        /\ FetchedAt(b) - poll[b].ps.last_activity_time
                              > STAGNATION_THRESHOLD_SECONDS =>
                              pc'[b] = "reconcile" /\ result'[b].status = STUCK]_vars

\* A session changed its message at 150 s and then answered the same
\* content until it had been idle for more than the threshold: STUCK.
C28_Witness ==
    \E b \in BatchIds :
       /\ pc[b] = "reconcile"
       /\ result[b].status = STUCK
       /\ poll[b].ps.last_activity_time = POLL_INTERVAL_SECONDS
       /\ poll[b].ps.last_status_message = "m2"
       /\ poll[b].iter.resp \in PollResponses
       /\ poll[b].iter.resp.status_message = "m2"
       /\ poll[b].fetches >= 4

\* The poll of batch b has returned from an iteration that was neither
\* timed out nor stagnated and whose answer carries no pull request URL.
ClassifiedByStatus(b) ==
    /\ pc[b] = "reconcile"
    /\ LiveIteration(b)
    /\ poll[b].iter.resp.pull_request \in {"none", ""}

\* This step is an iteration of the poll of batch b that fetched an answer
\* without a pull request URL, before the timeout and within the
\* stagnation threshold.
StatusIteration(b) ==
    /\ AnsweredIteration(b)
    /\ poll'[b].iter.elapsed <= SESSION_TIMEOUT_SECONDS
    /\ FetchedAt(b) - poll'[b].ps.last_activity_time <= STAGNATION_THRESHOLD_SECONDS
    /\ poll'[b].iter.resp.pull_request \in {"none", ""}

\* What a status iteration of batch b does, the error text of a failed
\* session being Text[resp].
StatusStep(b, Text) ==
    LET resp == poll'[b].iter.resp
    IN  /\ resp.status \in {"finished", "completed", "success"} =>
              /\ pc'[b] = "reconcile"
              /\ result'[b].status = SUCCESS
        /\ resp.status \in {"failed", "error", "cancelled"} =>
              /\ pc'[b] = "reconcile"
              /\ result'[b].status = FAILURE
              /\ result'[b].error_message = Text[resp]
        /\ resp.status = "blocked" =>
              /\ pc'[b] = "reconcile"
              /\ result'[b].status = FAILURE
              /\ result'[b].error_message =
                    "Session is blocked and requires manual intervention"
              /\ calls'[b] = calls[b]
        /\ resp.status \notin {"finished", "completed", "success", "failed", "error",
                                "cancelled", "blocked"} =>
              /\ pc'[b] = "poll"
              /\ result'[b] = result[b]
              /\ poll'[b].returned = poll[b].returned
              /\ poll'[b].ps.now = FetchedAt(b) + POLL_INTERVAL_SECONDS

\* C29: an iteration that is neither timed out nor stagnated and has no
\* pull request URL classifies by the raw status: finished, completed,
\* success return SUCCESS; failed, error, cancelled return FAILURE with the
\* status message as error text; blocked returns FAILURE with the
\* 'blocked ... manual intervention' text and posts nothing; any other
\* status returns nothing, and the loop sleeps and repeats.
C29_StatusClassification ==
    [][\A b \in BatchIds :
          StatusIteration(b) =>
             StatusStep(b, [resp \in PollResponses |-> resp.status_message])]_vars

\* C29 as amended: the error text of a failed, error or cancelled session
\* is the status message when there is one, and otherwise a text made from
\* the status.
C29_StatusClassificationOrFallback ==
    [][\A b \in BatchIds :
          StatusIteration(b) =>
             StatusStep(b, [resp \in PollResponses |->
                               IF resp.status_message # "" THEN resp.status_message
                               ELSE "Session ended with status"])]_vars

\* A session answered blocked with a status message and no pull request:
\* FAILURE with the text for blocked sessions, not with the message.
C29_Witness ==
    \E b \in BatchIds :
       /\ ClassifiedByStatus(b)
       /\ poll[b].iter.resp.status = "blocked"
       /\ poll[b].iter.resp.status_message = "m1"
       /\ result[b].status = FAILURE
       /\ result[b].error_message = "Session is blocked and requires manual intervention"

\* A session answered failed without a status message: FAILURE with the
\* text made from the status.
C29_WitnessFallback ==
    \E b \in BatchIds :
       /\ ClassifiedByStatus(b)
       /\ poll[b].iter.resp.status = "failed"
       /\ poll[b].iter.resp.status_message = ""
       /\ result[b].status = FAILURE
       /\ result[b].error_message = "Session ended with status"

\* handle_session_outcome has been applied to a result that carries no
\* alert numbers.
ReconciledWithoutAlerts ==
    /\ Len(reconciliation.history) >= 2
    /\ reconciliation.history[1].alert_numbers = {}

\* C31: for a result without assigned findings handle_session_outcome makes
\* no close and no unclaim call and returns the result as it was given,
\* whatever its status.
C31_NoAlertsNoReconciliation ==
    ReconciledWithoutAlerts =>
       /\ reconciliation.close_calls = <<>>
       /\ reconciliation.unclaim_calls = <<>>
       /\ \A k \in 2..Len(reconciliation.history) :
              reconciliation.history[k] = reconciliation.history[1]

\* A SUCCESS result without alert numbers whose fixed_alerts the caller had
\* filled in came back as given.
C31_Witness ==
    /\ ReconciledWithoutAlerts
    /\ reconciliation.history[1].status = SUCCESS
    /\ reconciliation.history[1].fixed_alerts = {1}
    /\ reconciliation.history[2] = reconciliation.history[1]

\* C32: close_github_alerts makes exactly one request for every entry of
\* its list and never a second one; the answer to that request (200 or
\* not, a request exception counting as not) is what it reports for the
\* alert; a failed request leaves the alert's assignees as they were; the
\* loop goes on to the next entry after a failure, and the call raises only
\* before its first request.
C32_CloseSingleAttempt ==
    \A i \in Instances :
       LET c == coord[i]
       IN  /\ c.op = "raised" => c.answers = <<>>
           /\ c.op = "close" =>
                 /\ assignees = c.pre
                 /\ Len(c.answers) = c.idx - 1
                 /\ \A p \in 1..Len(c.answers) :
                       /\ Len(c.answers[p]) = 1
                       /\ (c.returned /\ LastOccurrence(i, p)) =>
                             c.results[c.alert_numbers[p]] = c.answers[p][1]
                 /\ c.returned =>
                       /\ Len(c.answers) = Len(c.alert_numbers)
                       /\ DOMAIN c.results = Range(c.alert_numbers)

\* A close call on two alerts claimed by the bot has returned
\* {1: False, 2: True}: the request for alert 1 failed and was not
\* repeated, alert 2 was still asked for, and alert 1 is still assigned.
C32_Witness ==
    \E i \in Instances :
       /\ coord[i].op = "close"
       /\ coord[i].returned
       /\ coord[i].alert_numbers = <<1, 2>>
       /\ coord[i].answers = <<<<FALSE>>, <<TRUE>>>>
       /\ ~coord[i].results[1]
       /\ coord[i].results[2]
       /\ assignees[1] = {bot_username}

\* Batches whose pipeline has started and not finished, a pipeline
\* waiting for a session slot included.
InProgress ==
    {b \in BatchIds :
        pc[b] \in {"claim", "acquire", "create", "started", "register", "analyzing",
                   "poll", "reconcile", "add_result", "completed", "sleep", "release"}}

\* C33: at most max_workers pipelines are in progress at any time, a
\* pipeline waiting for a session slot counting as in progress; and a
\* pipeline that has started stays on its worker until it has finished: it
\* never goes back to the queue, and one that has finished never runs
\* again.
C33_WorkersBounded ==
    /\ [](Cardinality(InProgress) <= max_workers)
    /\ [][\A b \in BatchIds :
             /\ b \in InProgress => pc'[b] \in {pc[b], "done"} \/ b \in InProgress'
             /\ pc[b] = "done" => pc'[b] = "done"]_vars

\* The only worker waits for a session slot while another batch is still
\* queued.
C33_Witness ==
    /\ max_workers = 1
    /\ pc[1] = "acquire"
    /\ session_semaphore = 0
    /\ \E b \in BatchIds : pc[b] = "queued"

\* The session of batch b is in the registry of the shared run state.
Registered(b) ==
    /\ session_id[b] # 0
    /\ session_id[b] \in DOMAIN state.session_to_batch
    /\ state.session_to_batch[session_id[b]] = b

\* The results batch b has recorded in the shared run state.
Recorded(b) == {r \in BagToSet(state.results) : r.batch_id = b}

EmptyBatches == {b \in batches : tasks[b] \subseteq {NoAlert}}

\* C35: for a batch whose tasks yield no alert number process_batch makes
\* no claim call, takes no session slot, creates no session and makes no
\* other outward call, and returns a FAILURE result with empty
\* alert_numbers, which is what dispatch_threads hands back for it; and no
\* batch has more than one session created for it in one dispatch.
C35_EmptyBatchNotDispatched ==
    /\ \A b \in EmptyBatches :
          /\ calls[b] = NoCalls
          /\ session_id[b] = 0
          /\ pc[b] \in {"absent", "queued", "done"}
          /\ exc[b] = NoException
          /\ pc[b] = "done" =>
                /\ result[b].status = FAILURE
                /\ result[b].alert_numbers = {}
                /\ result[b].batch_id = b
          /\ b \in collected =>
                \E r \in BagToSet(results) :
                   /\ r.batch_id = b
                   /\ r.status = FAILURE
                   /\ r.alert_numbers = {}
                   /\ CopiesIn(r, results) = 1
    /\ \A b \in BatchIds : calls[b].create <= 1

\* dispatch_threads has returned: the batch without alert numbers got its
\* FAILURE result without any call, while a session was created for
\* another batch.
C35_Witness ==
    /\ dpc = "returned"
    /\ \E b \in EmptyBatches, c \in batches :
          /\ calls[b] = NoCalls
          /\ result[b].status = FAILURE
          /\ result[b].error_message = "No alerts found in batch data"
          /\ result[b] \in BagToSet(results)
          /\ calls[c].create = 1

\* Thread t sees the shared state under the lock: it has entered a
\* `with self.lock:` block and has not yet changed anything itself.
ObservesUnderLock(t) ==
    /\ locking.owner = t
    /\ locking.threads[t].at \in {"alerts", "append", "get"}

\* C36: whenever a thread looks at the shared state under the lock the two
\* maps have the same keys; every session whose registration has returned
\* is in both maps with its alert numbers and batch; every result whose
\* add_result has returned is in the list; what get_alerts_for_session
\* hands back is the registered list or nothing; and the list only grows.
C36_SharedStateConsistent ==
    /\ [](\A t \in BatchIds :
            /\ ObservesUnderLock(t) =>
                  DOMAIN state.session_to_alerts = DOMAIN state.session_to_batch
            /\ "register_session" \in locking.threads[t].returned =>
                  /\ t \in DOMAIN state.session_to_alerts
                  /\ t \in DOMAIN state.session_to_batch
                  /\ state.session_to_alerts[t] = AlertIds(t)
                  /\ state.session_to_batch[t] = t
            /\ "add_result" \in locking.threads[t].returned =>
                  \E r \in BagToSet(state.results) :
                     r.batch_id = t /\ CopiesIn(r, state.results) = 1
            /\ locking.threads[t].seen \in {{}, AlertIds(locking.threads[t].arg)})
    /\ [][state.results \sqsubseteq state.results']_vars

\* A thread reads under the lock while another thread, which has stored
\* nothing yet, waits for the lock to register its session, and a third
\* registration and a result are already in.
C36_Witness ==
    \E t, u \in BatchIds :
       /\ t # u
       /\ ObservesUnderLock(t)
       /\ locking.threads[t].at = "get"
       /\ locking.threads[u].at = "lock"
       /\ "register_session" \in locking.threads[t].returned
       /\ BagToSet(state.results) # {}

\* C39: once the dashboard is disabled no Slack API call, post or update,
\* is made any more, however the update calls of the worker threads
\* interleave.
C39_DisabledMeansSilent ==
    [][dashboard = "disabled" => slack'.api_calls = slack.api_calls]_vars

\* At most one message is posted, and a message is posted only while
\* msg_ts is not set.
C39_AtMostOnePost ==
    /\ slack.posted <= 1
    /\ slack.posted = 1 <=> slack.msg_ts # 0

\* C37: in every result dispatch_threads returns, fixed_alerts and
\* unfixed_alerts are disjoint and both within alert_numbers; and in every
\* result that was reconciled and recorded with status SUCCESS, FAILURE,
\* STUCK or TIMEOUT they make up alert_numbers between them.
C37_FixedUnfixedPartition ==
    \A r \in BagToSet(results) :
       /\ r.fixed_alerts \cap r.unfixed_alerts = {}
       /\ r.fixed_alerts \subseteq r.alert_numbers
       /\ r.unfixed_alerts \subseteq r.alert_numbers
       /\ (r \in BagToSet(state.results) /\ r.status \in {SUCCESS, FAILURE, STUCK, TIMEOUT}) =>
             r.fixed_alerts \cup r.unfixed_alerts = r.alert_numbers

\* dispatch_threads has returned a SUCCESS result in which one alert was
\* closed and the close request for the other failed.
C37_Witness ==
    /\ dpc = "returned"
    /\ \E r \in BagToSet(results) :
          /\ r \in BagToSet(state.results)
          /\ r.status = SUCCESS
          /\ r.alert_numbers = {1, 2}
          /\ r.fixed_alerts = {1}
          /\ r.unfixed_alerts = {2}

\* C38: every result dispatch_threads returns, every result recorded in
\* the shared state and every result handed to handle_session_outcome by
\* the pipeline has status SUCCESS, FAILURE, STUCK or TIMEOUT: none is
\* PARTIAL, PENDING or RUNNING, so the PARTIAL branch of the reconciliation
\* is never entered.
C38_ReturnedStatuses ==
    /\ \A r \in BagToSet(results) \cup BagToSet(state.results) :
          r.status \in {SUCCESS, FAILURE, STUCK, TIMEOUT}
    /\ \A b \in BatchIds :
          /\ pc[b] \in {"reconcile", "add_result"} =>
                result[b].status \in {SUCCESS, FAILURE, STUCK, TIMEOUT}
          /\ (pc[b] = "done" /\ exc[b] = NoException) =>
                result[b].status \in {SUCCESS, FAILURE, STUCK, TIMEOUT}

\* dispatch_threads has returned the result of a session that stagnated.
C38_Witness ==
    /\ dpc = "returned"
    /\ \E r \in BagToSet(results) :
          /\ r.status = STUCK
          /\ r.unfixed_alerts # {}
====
